---- MODULE Spec2Model ----
(***************************************************************************)
(* Redirect resolution of the AstroWind template: the request middleware   *)
(* (src/middleware.ts), the static table and promo redirects               *)
(* (src/data/redirects.ts, src/data/promoRedirects.ts) and the Pacific     *)
(* date helpers (src/utils/date-helpers.ts).                               *)
(*                                                                         *)
(* Text.  A JavaScript string is modelled as a sequence of symbols.  The   *)
(* characters the code and the URL standard look at ("/", "?", "&", "=",   *)
(* ":", "+", " ", "#", "%") are symbols of their own; every other symbol   *)
(* is a run of unreserved characters ("go", "contact-us") or one percent   *)
(* escape ("%26", and "%2526" for the escape of an escape).  Concatenation, startsWith, endsWith, includes and      *)
(* slice on the symbols the code tests are then the string operations.     *)
(*                                                                         *)
(* Optional values (null, undefined) are sequences of length 0 or 1.       *)
(***************************************************************************)
EXTENDS Integers, Sequences, FiniteSets, TLC

NULL == <<>>
Some(x) == <<x>>

\* `const v = value; rest`: a statement's value is computed once, when the
\* statement runs, and rest reads the value
Const(value, rest(_)) == CHOOSE result \in {rest(v) : v \in {value}} : TRUE

(***************************************************************************)
(* String primitives                                                       *)
(***************************************************************************)
startsWith(s, prefix) ==
    /\ Len(prefix) <= Len(s)
    /\ SubSeq(s, 1, Len(prefix)) = prefix

endsWith(s, suffix) ==
    /\ Len(suffix) <= Len(s)
    /\ SubSeq(s, Len(s) - Len(suffix) + 1, Len(s)) = suffix

includes(s, sym) == \E i \in 1..Len(s) : s[i] = sym

\* s.slice(0, -1)
sliceDropLast(s) == SubSeq(s, 1, Len(s) - 1)

\* index of the first occurrence of sym in s, 0 when there is none
IndexOf(s, sym) ==
    IF includes(s, sym)
      THEN CHOOSE i \in 1..Len(s) : s[i] = sym /\ \A j \in 1..(i - 1) : s[j] # sym
      ELSE 0

\* s.split(sym): the pieces between occurrences of sym
RECURSIVE Split(_, _)
Split(s, sym) ==
    LET i == IndexOf(s, sym)
    IN  IF i = 0 THEN <<s>>
        ELSE <<SubSeq(s, 1, i - 1)>> \o Split(SubSeq(s, i + 1, Len(s)), sym)

(***************************************************************************)
(* application/x-www-form-urlencoded, as URLSearchParams parses and        *)
(* serialises it, and encodeURIComponent                                   *)
(***************************************************************************)
\* what the form serialiser writes for the symbols it escapes (everything but
\* alphanumerics and *-._): a space is "+", a character its percent escape,
\* and a percent escape has its "%" escaped
FormEscapes ==
    (" " :> "+") @@
    ("/" :> "%2F") @@ ("?" :> "%3F") @@ ("&" :> "%26") @@ ("=" :> "%3D") @@
    (":" :> "%3A") @@ ("+" :> "%2B") @@ ("#" :> "%23") @@ ("%" :> "%25") @@
    ("%20" :> "%2520") @@
    ("%2F" :> "%252F") @@ ("%3F" :> "%253F") @@ ("%26" :> "%2526") @@ ("%3D" :> "%253D") @@
    ("%3A" :> "%253A") @@ ("%2B" :> "%252B") @@ ("%23" :> "%2523") @@ ("%25" :> "%2525")

FormEncodeSym(c) == IF c \in DOMAIN FormEscapes THEN FormEscapes[c] ELSE c

FormEncode(s) == [i \in 1..Len(s) |-> FormEncodeSym(s[i])]

\* "+" and "%20" are a space, another escape is what it escapes, anything else
\* itself
FormDecodeSym(c) ==
    IF c = "+" \/ c = "%20" THEN " "
    ELSE IF \E d \in DOMAIN FormEscapes : FormEscapes[d] = c
      THEN CHOOSE d \in DOMAIN FormEscapes : FormEscapes[d] = c
      ELSE c

FormDecode(s) == [i \in 1..Len(s) |-> FormDecodeSym(s[i])]

\* encodeURIComponent: as the form serialiser, but a space becomes %20
encodeURIComponent(s) ==
    [i \in 1..Len(s) |-> IF s[i] = " " THEN "%20" ELSE FormEncodeSym(s[i])]

\* one name=value piece of a query string: split at the first "="
ParsePair(piece) ==
    LET i == IndexOf(piece, "=")
    IN  IF i = 0 THEN <<FormDecode(piece), <<>>>>
        ELSE <<FormDecode(SubSeq(piece, 1, i - 1)),
               FormDecode(SubSeq(piece, i + 1, Len(piece)))>>

RECURSIVE ParsePieces(_)
ParsePieces(pieces) ==
    IF pieces = <<>> THEN <<>>
    ELSE IF Head(pieces) = <<>> THEN ParsePieces(Tail(pieces))
    ELSE <<ParsePair(Head(pieces))>> \o ParsePieces(Tail(pieces))

\* new URLSearchParams(search): the list of (name, value) pairs, in order
ParseQuery(search) == ParsePieces(Split(search, "&"))

\* searchParams.toString()
RECURSIVE SerializeParams(_)
SerializeParams(params) ==
    IF params = <<>> THEN <<>>
    ELSE LET p == Head(params)
             one == FormEncode(p[1]) \o <<"=">> \o FormEncode(p[2])
         IN  IF Len(params) = 1 THEN one
             ELSE one \o <<"&">> \o SerializeParams(Tail(params))

ParamsHas(params, key) == \E i \in 1..Len(params) : params[i][1] = key

\* searchParams.get(key): the first value, NULL when absent
ParamsGet(params, key) ==
    IF ParamsHas(params, key)
      THEN Some(params[CHOOSE i \in 1..Len(params) :
                         params[i][1] = key /\ \A j \in 1..(i - 1) : params[j][1] # key][2])
      ELSE NULL

\* searchParams.getAll(key)
ParamsGetAll(params, key) ==
    LET F[i \in 0..Len(params)] ==
          IF i = 0 THEN <<>>
          ELSE IF params[i][1] = key THEN F[i - 1] \o <<params[i][2]>> ELSE F[i - 1]
    IN  F[Len(params)]

\* searchParams.set(key, value): the first pair named key takes the value and
\* the other pairs named key are removed; with no such pair, one is appended
ParamsSet(params, key, value) ==
    IF ~ParamsHas(params, key) THEN Append(params, <<key, value>>)
    ELSE LET first == CHOOSE i \in 1..Len(params) :
                         params[i][1] = key /\ \A j \in 1..(i - 1) : params[j][1] # key
             F[i \in 0..Len(params)] ==
               IF i = 0 THEN <<>>
               ELSE IF i = first THEN F[i - 1] \o <<<<key, value>>>>
               ELSE IF params[i][1] = key THEN F[i - 1]
               ELSE F[i - 1] \o <<params[i]>>
         IN  F[Len(params)]

(***************************************************************************)
(* Dates.  A JavaScript Date (a time value in milliseconds) is the record  *)
(* [day, ms]: whole days since 1970-01-01 and milliseconds into that UTC   *)
(* day, so that the time value is day * MsPerDay + ms.  Months are 0-based *)
(* as in JavaScript.                                                       *)
(***************************************************************************)
MsPerHour == 60 * 60 * 1000
MsPerDay == 24 * MsPerHour

\* days since 1970-01-01 of a civil date, from the year's place in its 400-year
\* era, the month counted from March, and the day
DaysOfEra(era, yoe, mp, d) ==
    era * 146097 + yoe * 365 + yoe \div 4 - yoe \div 100 + (153 * mp + 2) \div 5 + d - 1 - 719468

DaysOfMarchYear(yy, mp, d) == DaysOfEra(yy \div 400, yy % 400, mp, d)

\* days since 1970-01-01 of the civil date (y, m in 1..12, d)
DaysFromCivil(y, m, d) == DaysOfMarchYear(IF m <= 2 THEN y - 1 ELSE y, (m + 9) % 12, d)

CivilRecord(y, m, d) ==
    [year |-> y + (IF m <= 2 THEN 1 ELSE 0), month |-> m - 1, day |-> d]

CivilOfMp(era, yoe, doy, mp) ==
    CivilRecord(yoe + era * 400, IF mp < 10 THEN mp + 3 ELSE mp - 9,
                doy - (153 * mp + 2) \div 5 + 1)

CivilOfDoy(era, yoe, doy) == CivilOfMp(era, yoe, doy, (5 * doy + 2) \div 153)

CivilOfYoe(era, doe, yoe) ==
    CivilOfDoy(era, yoe, doe - (365 * yoe + yoe \div 4 - yoe \div 100))

CivilOfDoe(era, doe) ==
    CivilOfYoe(era, doe, (doe - doe \div 1460 + doe \div 36524 - doe \div 146096) \div 365)

\* the civil date of a day number: [year, month (0-based), day]
CivilFromDays(z) == CivilOfDoe((z + 719468) \div 146097, (z + 719468) % 146097)

\* ECMAScript MakeDay: month 0-based and free to overflow, day free to overflow
MakeDay(year, month, day) ==
    DaysFromCivil(year + month \div 12, (month % 12) + 1, 1) + day - 1

\* ECMAScript MakeDate: a day number and milliseconds that may exceed a day
MakeDate(day, t) == [day |-> day + t \div MsPerDay, ms |-> t % MsPerDay]

\* Date.UTC(year, month, day, hour, minute, second, ms)
DateUTC(year, month, day, hour, minute, second, ms) ==
    Const(MakeDay(year, month, day), LAMBDA dayNumber :
          MakeDate(dayNumber, hour * MsPerHour + minute * 60000 + second * 1000 + ms))

AddHours(t, h) == MakeDate(t.day, t.ms + h * MsPerHour)

\* a <= b on time values
DateLeq(a, b) == a.day < b.day \/ (a.day = b.day /\ a.ms <= b.ms)

\* 0 = Sunday
WeekDay(day) == (day + 4) % 7

\* the n-th Sunday on or after the day numbered first
NthSundayFrom(first, n) == first + ((7 - WeekDay(first)) % 7) + 7 * (n - 1)

\* the n-th Sunday of a month, as a day number
NthSunday(year, month, n) ==
    Const(MakeDay(year, month, 1), LAMBDA first : NthSundayFrom(first, n))

\* America/Los_Angeles in the year y: daylight time runs from the second Sunday
\* of March, 02:00 PST (10:00 UTC), to the first Sunday of November, 02:00 PDT
\* (09:00 UTC)
PacificOffsetInYear(t, y) ==
    Const(NthSunday(y, 2, 2), LAMBDA start :
    Const(NthSunday(y, 10, 1), LAMBDA end :
          IF /\ DateLeq([day |-> start, ms |-> 10 * MsPerHour], t)
             /\ ~DateLeq([day |-> end, ms |-> 9 * MsPerHour], t)
            THEN -7 ELSE -8))

\* America/Los_Angeles: UTC offset in hours at the instant t
PacificOffset(t) == Const(CivilFromDays(t.day).year, LAMBDA y : PacificOffsetInYear(t, y))

\* the runtime's own time zone (TZ): its UTC offset at the instant t
LocalOffset(tz, t) == IF tz = "America/Los_Angeles" THEN PacificOffset(t) ELSE 0

\* the wall-clock reading of t at a UTC offset, as a time value
ToZone(offset, t) == AddHours(t, offset)

\* the instant of a Pacific wall-clock reading: on standard time when std, the
\* reading taken as standard time, falls on standard time
PacificInstant(wall, std) ==
    Const(PacificOffset(std), LAMBDA offset : IF offset = -8 THEN std ELSE AddHours(wall, 7))

InstantOfWall(tz, wall) ==
    IF tz = "America/Los_Angeles"
      THEN Const(AddHours(wall, 8), LAMBDA std : PacificInstant(wall, std))
      ELSE wall

\* new Date(year, month, day): midnight of that date in the runtime's time zone
LocalMidnight(tz, year, month, day) ==
    Const(DateUTC(year, month, day, 0, 0, 0, 0), LAMBDA wall : InstantOfWall(tz, wall))

\* date.getFullYear(), getMonth(), getDate(): the date of t in the runtime's zone
LocalComponents(tz, t) ==
    Const(LocalOffset(tz, t), LAMBDA offset : CivilFromDays(ToZone(offset, t).day))

\* new Date(year, month + 1, 0).getDate(): the number of days of the month
daysInMonth(year, month) == MakeDay(year, month + 1, 0) - MakeDay(year, month, 1) + 1

(***************************************************************************)
(* src/utils/date-helpers.ts                                               *)
(***************************************************************************)
\* toLocaleString('en-US', {timeZone: 'America/Los_Angeles', hour: '2-digit',
\* hour12: false}) and parseInt of its hour: the Pacific wall-clock hour of t
PacificHour(t) == Const(PacificOffset(t), LAMBDA offset : ToZone(offset, t).ms \div MsPerHour)

\* "MM/DD/YYYY" split at "/" and mapped to numbers
DateParts(c) == [month |-> c.month + 1, day |-> c.day, year |-> c.year]

\* toLocaleDateString('en-US', {timeZone: 'America/Los_Angeles', ...}): the
\* [month (1-based), day, year] of t in Pacific time
PacificDateParts(t) ==
    Const(PacificOffset(t), LAMBDA offset :
    Const(CivilFromDays(ToZone(offset, t).day), LAMBDA c : DateParts(c)))

\* offsetHours: the Pacific hour of noon UTC on the date, less 12
OffsetHoursOn(year, month, day) ==
    Const(DateUTC(year, month, day, 12, 0, 0, 0), LAMBDA testDate : PacificHour(testDate) - 12)

Rolled(year, month, day, hour) == [year |-> year, month |-> month, day |-> day, hour |-> hour]

\* the rollover that stays in the year
RollForwardSameYear(year, month, day, hour) ==
    IF day > daysInMonth(year, month)
      THEN Rolled(year, (month + 1) % 12, 1, hour)
      ELSE Rolled(year, month, day, hour)

\* date-helpers.ts lines 145-155 (and 64-73): the day after, into the next
\* month and year
RollForward(year, month, day, hour) ==
    IF day > daysInMonth(year, month)
      THEN IF month + 1 >= 12 THEN Rolled(year + 1, 0, 1, hour)
           ELSE Rolled(year, month + 1, 1, hour)
      ELSE Rolled(year, month, day, hour)

\* date-helpers.ts lines 158-166 (and 53-61): the day before, into the previous
\* month and year
RollBack(year, month, day, hour) ==
    IF day < 1
      THEN IF month - 1 < 0 THEN Rolled(year - 1, 11, daysInMonth(year - 1, 11), hour)
           ELSE Rolled(year, month - 1, daysInMonth(year, month - 1), hour)
      ELSE Rolled(year, month, day, hour)

\* "Handle day rollover if needed": lines 139-167 (and 47-74)
RollOver(year, month, day, utcHour) ==
    IF utcHour >= 24 THEN RollForward(year, month, day + 1, utcHour - 24)
    ELSE IF utcHour < 0 THEN RollBack(year, month, day - 1, utcHour + 24)
    ELSE Rolled(year, month, day, utcHour)

\* new Date(Date.UTC(utcYear, utcMonth, utcDay, utcHour, minute, second, ms))
DateOfRolled(r, minute, second, ms) == DateUTC(r.year, r.month, r.day, r.hour, minute, second, ms)

\* lines 44-76 of getTodayPacific: let utcHour = 0 - offsetHours, the rollover
\* and the returned date
TodayAtOffset(parts, offsetHours) ==
    Const(RollOver(parts.year, parts.month - 1, parts.day, 0 - offsetHours),
          LAMBDA r : DateOfRolled(r, 0, 0, 0))

\* lines 25-76 of getTodayPacific, from the parsed date string
TodayOfParts(parts) ==
    Const(OffsetHoursOn(parts.year, parts.month - 1, parts.day),
          LAMBDA offsetHours : TodayAtOffset(parts, offsetHours))

\* getTodayPacific(), for new Date() = now: midnight Pacific of today, as UTC
getTodayPacific(now) == Const(PacificDateParts(now), LAMBDA parts : TodayOfParts(parts))

\* getPacificDateComponents(date): the UTC components of the date as written
getPacificDateComponents(date) == CivilFromDays(date.day)

\* line 136: let utcHour = 23 - offsetHours
EndOfDayHour(offsetHours) == 23 - offsetHours

\* lines 132-170 of createPacificEndOfDay: 23:59:59.999 Pacific as UTC
EndOfDayAtOffset(year, month, day, offsetHours) ==
    Const(RollOver(year, month, day, EndOfDayHour(offsetHours)),
          LAMBDA r : DateOfRolled(r, 59, 59, 999))

\* createPacificEndOfDay(year, month, day)
createPacificEndOfDay(year, month, day) ==
    Const(OffsetHoursOn(year, month, day),
          LAMBDA offsetHours : EndOfDayAtOffset(year, month, day, offsetHours))

(***************************************************************************)
(* src/data/redirects.ts                                                   *)
(*                                                                         *)
(* A Redirect is [destination, permanent, category, utmParams]: an absent  *)
(* permanent is FALSE and an absent category is the empty string (the code *)
(* only tests their truthiness); utmParams is optional, its value the      *)
(* sequence of (key, value) pairs Object.entries yields.  A table          *)
(* (Record<string, Redirect>) is a function on its keys.                   *)
(***************************************************************************)
Redirect(destination, permanent, category, utmParams) ==
    [destination |-> destination, permanent |-> permanent,
     category |-> category, utmParams |-> utmParams]

\* the REDIRECTS table as shipped
ShippedRedirects ==
    (<<"/", "go">> :>
        Redirect(<<"/", "contact-us", "/">>, FALSE, <<>>, NULL)) @@
    (<<"/", "book">> :>
        Redirect(<<"/", "contact-us", "/", "?", "action", "=", "book">>, FALSE, <<>>, NULL)) @@
    (<<"/", "test">> :>
        Redirect(<<"/", "contact-us", "/">>, FALSE, <<"example-category">>,
                 Some(<< <<<<"utm_source">>, <<"example-source">>>>,
                         <<<<"utm_medium">>, <<"example-medium">>>>,
                         <<<<"utm_campaign">>, <<"example-campaign">>>> >>)))

\* the table after a site has added its own entries ("Add more redirects
\* here..."): an external permanent redirect as in the header's "/yt" example,
\* an entry for the interstitial's own path, a key written with a trailing
\* slash, and utmParams with an empty value
CustomRedirects ==
    ShippedRedirects @@
    (<<"/", "yt">> :>
        Redirect(<<"https", ":", "/", "/", "youtube.com", "/", "channel">>, TRUE, <<"social">>, NULL)) @@
    (<<"/", "redirect">> :>
        Redirect(<<"/", "contact-us", "/">>, FALSE, <<"internal">>, NULL)) @@
    (<<"/", "sale", "/">> :>
        Redirect(<<"/", "offers", "/">>, TRUE, <<>>,
                 Some(<< <<<<"utm_source">>, <<"instagram">>>>,
                         <<<<"utm_medium">>, <<>>>> >>)))

RedirectTables == {ShippedRedirects, CustomRedirects}

\* table[key], undefined (NULL) when the table has no such key
Lookup(table, key) == IF key \in DOMAIN table THEN Some(table[key]) ELSE NULL

\* a normalisation that only ensures the leading slash
cleanPathKeepSlash(path) == IF startsWith(path, <<"/">>) THEN path ELSE <<"/">> \o path

\* "Normalize path (remove trailing slash, ensure leading slash)"
cleanPath(path) ==
    LET normalizedPath == IF startsWith(path, <<"/">>) THEN path ELSE <<"/">> \o path
    IN  IF endsWith(normalizedPath, <<"/">>) /\ normalizedPath # <<"/">>
          THEN sliceDropLast(normalizedPath)
          ELSE normalizedPath

\* the lookup getRedirect and getPromoRedirect share: the clean path, then the
\* clean path with a trailing slash
LookupPath(table, path) ==
    IF path = <<>> THEN NULL
    ELSE LET direct == Lookup(table, cleanPath(path))
         IN  IF direct # NULL THEN direct
             ELSE Lookup(table, cleanPath(path) \o <<"/">>)

\* getRedirect(path) on the table REDIRECTS
getRedirect(table, path) == LookupPath(table, path)

(***************************************************************************)
(* src/data/promoRedirects.ts                                              *)
(*                                                                         *)
(* Content entries.  Dates are the Date objects YAML yields: midnight UTC  *)
(* of the date as written.  An absent or empty string field is <<>>.       *)
(***************************************************************************)
WrittenDate(year, month, day) == DateUTC(year, month - 1, day, 0, 0, 0, 0)

\* redirects[key] = value
MapSet(map, key, value) ==
    [k \in DOMAIN map \cup {key} |-> IF k = key THEN value ELSE map[k]]

\* shortUrl.startsWith('/') ? shortUrl : `/${shortUrl}`
WithLeadingSlash(shortUrl) ==
    IF startsWith(shortUrl, <<"/">>) THEN shortUrl ELSE <<"/">> \o shortUrl

\* a || b on strings
OrElse(a, b) == IF a # <<>> THEN a ELSE b

\* new Date(c.year, c.month, c.day, 0, 0, 0, 0)
StartOfDay(tz, c) == LocalMidnight(tz, c.year, c.month, c.day)

\* createPacificEndOfDay(c.year, c.month, c.day)
EndOfDay(c) == createPacificEndOfDay(c.year, c.month, c.day)

\* new Date(nowPacific.getFullYear(), nowPacific.getMonth(), nowPacific.getDate())
todayStartPacific(tz, now) ==
    Const(getTodayPacific(now), LAMBDA nowPacific :
    Const(LocalComponents(tz, nowPacific), LAMBDA c : StartOfDay(tz, c)))

\* the condition of lines 117-121
ActiveBetween(shortUrl, startDate, today, endDate) ==
    /\ shortUrl # <<>>
    /\ DateLeq(startDate, today)
    /\ DateLeq(today, endDate)

\* lines 109-121
CampaignActive(tz, now, campaign) ==
    Const(todayStartPacific(tz, now), LAMBDA today :
    Const(getPacificDateComponents(campaign.startDate), LAMBDA startComponents :
    Const(StartOfDay(tz, startComponents), LAMBDA startDate :
    Const(getPacificDateComponents(campaign.endDate), LAMBDA endComponents :
    Const(EndOfDay(endComponents), LAMBDA endDate :
          ActiveBetween(campaign.shortUrl, startDate, today, endDate))))))

CampaignRedirect(campaign) ==
    Redirect(<<"/", "campaigns", "/">> \o campaign.slug \o <<"/">>, FALSE, <<"promo">>,
             IF campaign.utmParams # NULL THEN campaign.utmParams
             ELSE Some(<< <<<<"utm_source">>, <<"website">>>>,
                          <<<<"utm_medium">>, <<"promo">>>>,
                          <<<<"utm_campaign">>, OrElse(campaign.id, campaign.slug)>> >>))

\* the loop over campaigns (lines 107-137)
\* one pass of the loop body (lines 108-136)
CampaignsStep(redirects, campaign, tz, now) ==
    IF CampaignActive(tz, now, campaign)
      THEN MapSet(redirects, WithLeadingSlash(campaign.shortUrl), CampaignRedirect(campaign))
      ELSE redirects

RECURSIVE CampaignsLoop(_, _, _, _)
CampaignsLoop(redirects, campaigns, tz, now) ==
    IF campaigns = <<>> THEN redirects
    ELSE Const(CampaignsStep(redirects, Head(campaigns), tz, now),
               LAMBDA next : CampaignsLoop(next, Tail(campaigns), tz, now))

\* expirationDate >= todayStartPacific (lines 144-152)
CouponNotExpired(tz, now, coupon) ==
    Const(todayStartPacific(tz, now), LAMBDA today :
    Const(getPacificDateComponents(coupon.expirationDate), LAMBDA expComponents :
    Const(EndOfDay(expComponents), LAMBDA expirationDate :
          DateLeq(today, expirationDate))))

\* "Determine destination based on destinationType"
CouponDestination(coupon) ==
    IF coupon.destinationType = "contact"
      THEN <<"/", "contact-us", "/", "?", "coupon", "=">> \o encodeURIComponent(coupon.code)
    ELSE IF coupon.destinationType = "custom" /\ coupon.ctaUrl # <<>>
      THEN coupon.ctaUrl
    ELSE <<"/", "coupon", "/">> \o coupon.slug \o <<"/">>

DefaultCampaignId == <<"new-year-special-2026">>

CouponRedirect(coupon) ==
    Redirect(CouponDestination(coupon), FALSE, <<"promo">>,
             IF coupon.utmParams # NULL THEN coupon.utmParams
             ELSE Some(<< <<<<"utm_source">>, <<"social">>>>,
                          <<<<"utm_medium">>, <<"promo">>>>,
                          <<<<"utm_campaign">>, OrElse(coupon.campaignId, DefaultCampaignId)>>,
                          <<<<"utm_content">>, coupon.code>> >>))

\* the redirect of one campaign link (lines 194-212); link is (campaignType, campaignLink)
CampaignLinkRedirect(coupon, link) ==
    LET campaignType == link[1]
        campaignLink == link[2]
    IN  Redirect(CouponDestination(coupon), FALSE, <<"promo-">> \o campaignType,
                 IF campaignLink.utmParams # NULL THEN campaignLink.utmParams
                 ELSE Some(<< <<<<"utm_source">>,
                                IF campaignType = <<"qr">> THEN <<"qr_code">> ELSE campaignType>>,
                              <<<<"utm_medium">>,
                                IF campaignType = <<"qr">> THEN <<"offline">> ELSE campaignType>>,
                              <<<<"utm_campaign">>, OrElse(coupon.campaignId, DefaultCampaignId)>>,
                              <<<<"utm_content">>, coupon.code>> >>))

RECURSIVE CampaignLinksLoop(_, _, _)
CampaignLinksLoop(redirects, coupon, links) ==
    IF links = <<>> THEN redirects
    ELSE LET link == Head(links)
             next == IF link[2].shortUrl # <<>>
                       THEN MapSet(redirects, WithLeadingSlash(link[2].shortUrl),
                                   CampaignLinkRedirect(coupon, link))
                       ELSE redirects
         IN  CampaignLinksLoop(next, coupon, Tail(links))

\* the loop over coupons (lines 142-216)
\* lines 143-180: the coupon's own short URL
CouponOwnStep(redirects, coupon, notExpired) ==
    IF coupon.shortUrl # <<>> /\ notExpired
      THEN MapSet(redirects, WithLeadingSlash(coupon.shortUrl), CouponRedirect(coupon))
      ELSE redirects

\* lines 183-215: the coupon's campaign links
CouponLinksStep(redirects, coupon, notExpired) ==
    IF coupon.campaignLinks # NULL /\ notExpired
      THEN CampaignLinksLoop(redirects, coupon, coupon.campaignLinks[1])
      ELSE redirects

\* one pass of the loop body (lines 143-215)
CouponsStep(redirects, coupon, tz, now) ==
    Const(CouponNotExpired(tz, now, coupon), LAMBDA notExpired :
    Const(CouponOwnStep(redirects, coupon, notExpired), LAMBDA own :
          CouponLinksStep(own, coupon, notExpired)))

RECURSIVE CouponsLoop(_, _, _, _)
CouponsLoop(redirects, coupons, tz, now) ==
    IF coupons = <<>> THEN redirects
    ELSE Const(CouponsStep(redirects, Head(coupons), tz, now),
               LAMBDA next : CouponsLoop(next, Tail(coupons), tz, now))

\* the content collections getCollection('campaigns') and getCollection('coupons')
\* resolve to
Campaigns ==
    << [slug |-> <<"winter-sale">>, id |-> <<"winter-2026">>, shortUrl |-> <<"promo">>,
        startDate |-> WrittenDate(2026, 1, 30), endDate |-> WrittenDate(2026, 1, 31),
        utmParams |-> NULL],
       [slug |-> <<"spring">>, id |-> <<>>, shortUrl |-> <<"/", "go">>,
        startDate |-> WrittenDate(2026, 2, 1), endDate |-> WrittenDate(2026, 2, 2),
        utmParams |-> Some(<< <<<<"utm_source">>, <<"newsletter">>>> >>)],
       [slug |-> <<"evergreen">>, id |-> <<"evergreen">>, shortUrl |-> <<>>,
        startDate |-> WrittenDate(2025, 1, 1), endDate |-> WrittenDate(2027, 12, 31),
        utmParams |-> NULL] >>

Coupons ==
    << [slug |-> <<"ten-off">>, code |-> <<"SAVE", " ", "10">>, shortUrl |-> <<"/", "save">>,
        expirationDate |-> WrittenDate(2026, 1, 31), destinationType |-> "contact",
        ctaUrl |-> <<>>, campaignId |-> <<>>, utmParams |-> NULL,
        campaignLinks |-> Some(<< <<<<"sms">>, [shortUrl |-> <<"sms">>, utmParams |-> NULL]>>,
                                  <<<<"qr">>, [shortUrl |-> <<"/", "qr">>, utmParams |-> NULL]>> >>)],
       [slug |-> <<"partner">>, code |-> <<"PARTNER">>, shortUrl |-> <<"partner">>,
        expirationDate |-> WrittenDate(2026, 2, 2), destinationType |-> "custom",
        ctaUrl |-> <<"https", ":", "/", "/", "partner.example", "/", "deal">>,
        campaignId |-> <<"partners">>, utmParams |-> NULL, campaignLinks |-> NULL] >>

(***************************************************************************)
(* src/middleware.ts                                                       *)
(***************************************************************************)
\* context.url.origin
Origin == <<"https", ":", "/", "/", "site.example">>

\* the skip without the trailing-slash normalisation
IsInterstitialExact(pathname) == pathname = <<"/", "redirect">>

\* lines 23-26: the interstitial page itself, with or without trailing slash
IsInterstitial(pathname) ==
    LET normalizedPathname ==
          IF endsWith(pathname, <<"/">>) /\ pathname # <<"/">>
            THEN sliceDropLast(pathname) ELSE pathname
    IN  normalizedPathname = <<"/", "redirect">>

\* the two tables consulted in the other order
ResolveStaticFirst(table, pathname, promo) ==
    IF getRedirect(table, pathname) # NULL THEN getRedirect(table, pathname) ELSE promo

\* lines 39-55: the promo redirect when there is one, else the static one
Resolve(table, pathname, promo) ==
    IF promo # NULL THEN promo ELSE getRedirect(table, pathname)

IsAbsolute(destination) ==
    \/ startsWith(destination, <<"http", ":", "/", "/">>)
    \/ startsWith(destination, <<"https", ":", "/", "/">>)

\* the query appended to every destination, absolute ones too
DestinationAlways(redirect, search) ==
    IF SerializeParams(ParseQuery(search)) # <<>>
      THEN redirect.destination \o
           (IF includes(redirect.destination, "?") THEN <<"&">> ELSE <<"?">>) \o
           SerializeParams(ParseQuery(search))
      ELSE redirect.destination

\* lines 62-73: the destination, with the request's query on a relative one
Destination(redirect, search) ==
    Const(redirect.destination, LAMBDA destination :
    Const(SerializeParams(ParseQuery(search)), LAMBDA searchParams :
    Const(IF includes(destination, "?") THEN <<"&">> ELSE <<"?">>, LAMBDA separator :
          IF ~IsAbsolute(destination) /\ searchParams # <<>>
            THEN destination \o separator \o searchParams
            ELSE destination)))

\* line 83
TypeOf(redirect) == IF redirect.permanent THEN <<"permanent">> ELSE <<"temporary">>

\* lines 95-98: one hardcoded UTM parameter
AddUtmParam(params, key, value) ==
    IF value # <<>> /\ ~ParamsHas(params, key) THEN ParamsSet(params, key, value) ELSE params

\* lines 92-101: hardcoded UTM parameters, only the non-empty ones and only
\* under names not yet present
RECURSIVE AddUtmParams(_, _)
AddUtmParams(params, entries) ==
    IF entries = <<>> THEN params
    ELSE Const(AddUtmParam(params, Head(entries)[1], Head(entries)[2]),
               LAMBDA next : AddUtmParams(next, Tail(entries)))

TrackingParams == {<<"source">>, <<"dest">>, <<"type">>, <<"category">>}

\* a copy that leaves a name already present alone
CopyParamIfAbsent(params, key, value) ==
    IF key \notin TrackingParams /\ ~ParamsHas(params, key)
      THEN ParamsSet(params, key, value) ELSE params

\* lines 107-109: what forEach does with one parameter of the request
CopyParam(params, key, value) ==
    IF key \notin TrackingParams THEN ParamsSet(params, key, value) ELSE params

\* lines 105-110
RECURSIVE CopyRequestParams(_, _)
CopyRequestParams(params, requestParams) ==
    IF requestParams = <<>> THEN params
    ELSE Const(CopyParam(params, Head(requestParams)[1], Head(requestParams)[2]),
               LAMBDA next : CopyRequestParams(next, Tail(requestParams)))

\* the source parameter taken from the normalised path
SourceOfClean(request) == cleanPath(request.pathname)

\* line 81: the source parameter is the pathname as requested
SourceOf(request) == request.pathname

\* lines 80-110: the search parameters of redirectUrl
InterstitialParams(request, redirect) ==
    Const(ParamsSet(<<>>, <<"source">>, SourceOf(request)), LAMBDA p1 :
    Const(Destination(redirect, request.search), LAMBDA destination :
    Const(ParamsSet(p1, <<"dest">>, destination), LAMBDA p2 :
    Const(ParamsSet(p2, <<"type">>, TypeOf(redirect)), LAMBDA p3 :
    Const(IF redirect.category # <<>>
            THEN ParamsSet(p3, <<"category">>, redirect.category) ELSE p3, LAMBDA p4 :
    Const(IF redirect.utmParams # NULL
            THEN AddUtmParams(p4, redirect.utmParams[1]) ELSE p4, LAMBDA p5 :
    Const(ParseQuery(request.search), LAMBDA requestParams :
          CopyRequestParams(p5, requestParams))))))))

\* line 119: the status the interstitial redirect is answered with
RedirectStatus(redirect) == 307

\* redirectUrl.toString()
InterstitialUrl(params) ==
    Origin \o <<"/", "redirect", "/">> \o
    (IF params = <<>> THEN <<>> ELSE <<"?">> \o SerializeParams(params))

NextResponse == [kind |-> "next", status |-> 0, location |-> <<>>]

\* lines 57-123
Respond(request, redirect) ==
    IF redirect # NULL
      THEN Const(InterstitialParams(request, redirect[1]), LAMBDA params :
                 [kind |-> "redirect", status |-> RedirectStatus(redirect[1]),
                  location |-> InterstitialUrl(params)])
      ELSE NextResponse

(***************************************************************************)
(* The state machine.  A request is handled by one invocation of           *)
(* onRequest; the invocation yields at its awaits, where other requests    *)
(* may run and the clock may advance.                                      *)
(***************************************************************************)
\* concurrent invocations of onRequest in the concurrent specification
NumProcs == 2
\* the redirects a client follows in a row before it gives up
MaxHops == 2

Procs == 1..NumProcs

TimeZones == {"UTC", "America/Los_Angeles"}

\* the instants new Date() is read at: 2026-01-29 19:00, 2026-01-31 23:30,
\* 2026-02-01 12:00, 2026-02-02 23:59 and 2026-02-03 12:00 Pacific time
Instants ==
    { DateUTC(2026, 0, 30, 3, 0, 0, 0), DateUTC(2026, 1, 1, 7, 30, 0, 0),
      DateUTC(2026, 1, 1, 20, 0, 0, 0), DateUTC(2026, 1, 3, 7, 59, 0, 0),
      DateUTC(2026, 1, 3, 20, 0, 0, 0) }

Pathnames ==
    { <<"/">>, <<"/", "about">>, <<"/", "go">>, <<"/", "go", "/">>, <<"/", "book">>,
      <<"/", "test">>, <<"/", "yt">>, <<"/", "sale">>, <<"/", "promo">>,
      <<"/", "save">>, <<"/", "sms">>, <<"/", "partner", "/">>,
      <<"/", "redirect">>, <<"/", "redirect", "/">>, <<"/", "/", "go">> }

\* url.search without its "?"
Searches ==
    { <<>>,
      <<"utm_source", "=", "x">>,
      <<"utm_source", "=", "a", "&", "utm_source", "=", "b">>,
      <<"utm_medium", "=", "email", "&", "ref", "=", "%26", "+", "1">>,
      <<"source", "=", "evil", "&", "dest", "=", "evil", "&", "type", "=", "permanent",
        "&", "category", "=", "evil", "&", "ref", "=", "1">>,
      <<"tag", "=", "a", "&", "tag", "=", "b">>,
      <<"flag">>,
      <<"&">> }

Request(pathname, search) == [pathname |-> pathname, search |-> search]

Requests == {Request(p, q) : p \in Pathnames, q \in Searches}

\* the requests of the concurrent specification
ConcRequests ==
    { Request(<<"/", "go">>, <<"utm_source", "=", "x">>),
      Request(<<"/", "partner">>, <<>>),
      Request(<<"/", "about">>, <<>>) }

NoRequest == Request(<<>>, <<>>)
NoResponse == [kind |-> "none", status |-> 0, location |-> <<>>]
NoDate == [day |-> 0, ms |-> 0]

\* what is recorded about an invocation: how many redirects the client has
\* followed to get here, which tables were consulted, the value of onRequest's
\* variable `redirect` and where it came from, what failed, and what
\* new Date() read in each loop
NoHist ==
    [hops |-> 0, consulted |-> {}, redirect |-> NULL, from |-> "none", failed |-> "none",
     campaignsAt |-> NoDate, couponsAt |-> NoDate]

VARIABLES
    REDIRECTS,   \* the static table of src/data/redirects.ts
    TZ,          \* the runtime's time zone
    now,         \* what new Date() reads
    pc,          \* pc[p]: where invocation p is
    req,         \* req[p]: its request (context.url.pathname and .search)
    redirects,   \* redirects[p]: the map getPromoRedirects is building
    resp,        \* resp[p]: the response it returned
    hist,        \* hist[p]: the record described at NoHist
    projectRoot, \* the plugin's `let projectRoot`
    files,       \* the paths that exist on disk
    call,        \* the last resolveId call: source, disk then, result, fs probes
    returned,    \* the client paths resolveId has returned so far
    browser,     \* the page's environment: has sessionStorage, how it started
    storage,     \* sessionStorage's redirect_chain item: NULL or Some(text)
    stored,      \* the redirects storeRedirectInSession wrote, in call order
    got,         \* what the last getRedirectChain call returned, if any
    page,        \* the page the analytics scripts run in: window, hostname, readyState
    gtag,        \* window.gtag is defined
    autoInit,    \* analytics-events.ts's module code: "import", "waiting", "done"
    inits,       \* the times initAnalyticsEvents registered its listeners
    closure,     \* per registration: scrollTimeout, scrollDepthTracked, the visibility timer and observer
    gaTracked,   \* the section carries data-ga-tracked
    sent,        \* the gtag('event', ...) calls made
    lastOp,      \* the last exported function called (initAnalyticsEvents or a track function) and its isDevelopment
    mapConfig,   \* the .google-map element: its id and data attributes
    google,      \* google.maps is loaded
    mapRun,      \* the current initGoogleMap run: where it is and what it did
    retries,     \* the retry timers initGoogleMap has set
    endArg,      \* the (year, month, day) createPacificEndOfDay is given
    endOfDay,    \* NULL, or Some(the Date createPacificEndOfDay returned for endArg)
    ddConfig,    \* window.__DATADOG_CONFIG__: NULL or Some([applicationId, clientToken, site])
    ddStage,     \* the Datadog module at "import", "listening" (for DOMContentLoaded) or "started", and document.readyState
    ddPending,   \* the setTimeout(tryInit, 50) timers that have not fired
    chainCalls,  \* the initDatadogRUM calls tryInit made
    rumInits,    \* the datadogRum.init calls
    lastAttempt  \* the last tryInit run: its number, what it found, scheduled and called

\* the state of the middleware
mwVars == <<REDIRECTS, TZ, now, pc, req, redirects, resp, hist>>

\* the state of the client-override plugin and the disk
pluginVars == <<projectRoot, files, call, returned>>

\* the state of the redirect chain in session storage
sessionVars == <<browser, storage, stored, got>>

\* the state of the analytics scripts
gaVars == <<page, gtag, autoInit, inits, closure, gaTracked, sent, lastOp>>

\* the state of the Google Map script
mapVars == <<mapConfig, google, mapRun, retries>>

\* a call of createPacificEndOfDay
dateVars == <<endArg, endOfDay>>

\* the state of the Datadog RUM script
ddVars == <<ddConfig, ddStage, ddPending, chainCalls, rumInits, lastAttempt>>

vars == <<mwVars, pluginVars, sessionVars, gaVars, mapVars, dateVars, ddVars>>

\* no resolveId call yet
NoCall == [source |-> <<>>, disk |-> {}, result |-> NULL, probed |-> <<>>]

\* the plugin as constructed, on an empty disk
PluginOff ==
    /\ projectRoot = NULL
    /\ files = {}
    /\ call = NoCall
    /\ returned = {}

\* a page without session storage, nothing called
SessionOff ==
    /\ browser = [hasStorage |-> FALSE, origin |-> "absent"]
    /\ storage = NULL
    /\ stored = <<>>
    /\ got = NULL

\* the calls of initAnalyticsEvents that get past its guard in a run
MaxInits == 1

\* the gtag calls in a run
MaxCalls == 4

\* the state of one initAnalyticsEvents closure before it exists
NoClosure == [scrollTimeout |-> FALSE, depth |-> 0, visTimer |-> FALSE, observing |-> FALSE]

NoOp == [fn |-> "", dev |-> FALSE]

\* no page, no analytics script loaded
AnalyticsOff ==
    /\ page = [hasWindow |-> FALSE, hostname |-> <<>>, readyState |-> "complete"]
    /\ gtag = FALSE
    /\ autoInit = "done"
    /\ inits = 0
    /\ closure = [c \in 1..MaxInits |-> NoClosure]
    /\ gaTracked = FALSE
    /\ sent = 0
    /\ lastOp = NoOp

\* an initGoogleMap run that has not started
NoRun == [pc |-> "idle", success |-> FALSE, attempts |-> <<>>, created |-> 0, errors |-> {}]

\* no map element on the page
MapOff ==
    /\ mapConfig = [id |-> "", placeName |-> NULL, address |-> NULL, coordinates |-> NULL]
    /\ google = FALSE
    /\ mapRun = NoRun
    /\ retries = 0

\* createPacificEndOfDay not called
DatesOff ==
    /\ endArg = [year |-> 1970, month |-> 0, day |-> 1]
    /\ endOfDay = NULL

NoAttempt == [n |-> 0, complete |-> FALSE, scheduled |-> 0, called |-> 0]

\* no Datadog script on the page
DatadogOff ==
    /\ ddConfig = NULL
    /\ ddStage = [at |-> "started", readyState |-> "complete"]
    /\ ddPending = 0
    /\ chainCalls = 0
    /\ rumInits = 0
    /\ lastAttempt = NoAttempt

\* what is not the middleware's
notMiddleware == <<pluginVars, sessionVars, gaVars, mapVars, dateVars, ddVars>>

\* a map kept at module level: a call starts from what another call left in it
NewRedirectsMapShared(p, maps) == maps[CHOOSE q \in DOMAIN maps : q # p]

\* line 101: const redirects = {}
NewRedirectsMap(p, maps) == <<>>

\* the request a client makes when it follows the Location of a redirect
RequestOfLocation(location) ==
    LET rest == SubSeq(location, Len(Origin) + 1, Len(location))
        q == IndexOf(rest, "?")
    IN  IF q = 0 THEN Request(rest, <<>>)
        ELSE Request(SubSeq(rest, 1, q - 1), SubSeq(rest, q + 1, Len(rest)))

Init ==
    /\ REDIRECTS \in RedirectTables
    /\ TZ \in TimeZones
    /\ now \in Instants
    /\ pc = [p \in Procs |-> "idle"]
    /\ req = [p \in Procs |-> NoRequest]
    /\ redirects = [p \in Procs |-> <<>>]
    /\ resp = [p \in Procs |-> NoResponse]
    /\ hist = [p \in Procs |-> NoHist]
    /\ PluginOff
    /\ SessionOff
    /\ AnalyticsOff
    /\ MapOff
    /\ DatesOff
    /\ DatadogOff

\* onRequest up to its first await: lines 19-31, then getPromoRedirect and
\* getPromoRedirects up to `await getCollection('campaigns')`
Begin(p, request, hops) ==
    /\ req' = [req EXCEPT ![p] = request]
    /\ IF IsInterstitial(request.pathname)
         THEN /\ pc' = [pc EXCEPT ![p] = "done"]
              /\ resp' = [resp EXCEPT ![p] = NextResponse]
              /\ redirects' = [redirects EXCEPT ![p] = <<>>]
              /\ hist' = [hist EXCEPT ![p] = [NoHist EXCEPT !.hops = hops]]
         ELSE /\ pc' = [pc EXCEPT ![p] = "campaigns"]
              /\ resp' = [resp EXCEPT ![p] = NoResponse]
              /\ redirects' = [redirects EXCEPT ![p] = NewRedirectsMap(p, redirects)]
              /\ hist' = [hist EXCEPT ![p] = [NoHist EXCEPT !.hops = hops]]
    /\ UNCHANGED <<REDIRECTS, TZ, now, notMiddleware>>

\* a request arrives
Receive(p, request) ==
    /\ pc[p] = "idle"
    /\ Begin(p, request, 0)

\* the client follows the redirect it was answered with
Follow(p) ==
    /\ pc[p] = "done"
    /\ resp[p].kind = "redirect"
    /\ hist[p].hops < MaxHops
    /\ Begin(p, RequestOfLocation(resp[p].location), hist[p].hops + 1)

\* a catch that drops what was collected
OnLoadErrorDiscard(map) == <<>>

\* the catch of getPromoRedirects (lines 217-222): the map as built so far
OnLoadError(map) == map

\* getPromoRedirect(path) once getPromoRedirects has returned map (lines 238-248)
getPromoRedirect(map, path) == LookupPath(map, path)

\* getPromoRedirects returns map and getPromoRedirect its lookup; onRequest
\* runs from line 42 to its return
ReturnFrom(p, map, failed, h) ==
    LET promo == getPromoRedirect(map, req[p].pathname)
        redirect == Resolve(REDIRECTS, req[p].pathname, promo)
    IN  /\ pc' = [pc EXCEPT ![p] = "done"]
        /\ redirects' = [redirects EXCEPT ![p] = map]
        /\ resp' = [resp EXCEPT ![p] = Respond(req[p], redirect)]
        /\ hist' = [hist EXCEPT ![p] =
                      [h EXCEPT !.failed = failed,
                                !.redirect = redirect,
                                !.consulted = IF promo # NULL /\ redirect = promo
                                                THEN {"promo"} ELSE {"promo", "static"},
                                !.from = IF redirect = NULL THEN "none"
                                         ELSE IF redirect = promo THEN "promo" ELSE "static"]]
        /\ UNCHANGED <<REDIRECTS, TZ, now, req, notMiddleware>>

\* getCollection('campaigns') resolves: the loop of lines 107-137, up to
\* `await getCollection('coupons')`
CampaignsLoaded(p) ==
    /\ pc[p] = "campaigns"
    /\ pc' = [pc EXCEPT ![p] = "coupons"]
    /\ redirects' = [redirects EXCEPT ![p] = CampaignsLoop(redirects[p], Campaigns, TZ, now)]
    /\ hist' = [hist EXCEPT ![p].campaignsAt = now]
    /\ UNCHANGED <<REDIRECTS, TZ, now, req, resp, notMiddleware>>

\* getCollection('campaigns') throws: the catch of lines 217-220
CampaignsFailed(p) ==
    /\ pc[p] = "campaigns"
    /\ ReturnFrom(p, OnLoadError(redirects[p]), "campaigns", hist[p])

\* getCollection('coupons') resolves: the loop of lines 142-216
CouponsLoaded(p) ==
    /\ pc[p] = "coupons"
    /\ ReturnFrom(p, CouponsLoop(redirects[p], Coupons, TZ, now), "none",
                  [hist[p] EXCEPT !.couponsAt = now])

\* getCollection('coupons') throws: the catch of lines 217-220
CouponsFailed(p) ==
    /\ pc[p] = "coupons"
    /\ ReturnFrom(p, OnLoadError(redirects[p]), "coupons", hist[p])

\* the awaited getPromoRedirect rejects: the catch of middleware.ts lines 45-50
\* leaves redirect null, and onRequest goes on at line 53
PromoRejected(p) ==
    /\ pc[p] \in {"campaigns", "coupons"}
    /\ LET redirect == getRedirect(REDIRECTS, req[p].pathname)
       IN  /\ pc' = [pc EXCEPT ![p] = "done"]
           /\ resp' = [resp EXCEPT ![p] = Respond(req[p], redirect)]
           /\ hist' = [hist EXCEPT ![p].failed = "promo",
                                   ![p].redirect = redirect,
                                   ![p].consulted = {"promo", "static"},
                                   ![p].from = IF redirect = NULL THEN "none" ELSE "static"]
    /\ UNCHANGED <<REDIRECTS, TZ, now, req, redirects, notMiddleware>>

\* the response is delivered and the invocation is over
Deliver(p) ==
    /\ pc[p] = "done"
    /\ pc' = [pc EXCEPT ![p] = "idle"]
    /\ req' = [req EXCEPT ![p] = NoRequest]
    /\ redirects' = [redirects EXCEPT ![p] = <<>>]
    /\ resp' = [resp EXCEPT ![p] = NoResponse]
    /\ hist' = [hist EXCEPT ![p] = NoHist]
    /\ UNCHANGED <<REDIRECTS, TZ, now, notMiddleware>>

\* time passes
Tick ==
    /\ \E t \in Instants : ~DateLeq(t, now) /\ now' = t
    /\ UNCHANGED <<REDIRECTS, TZ, pc, req, redirects, resp, hist, notMiddleware>>

\* one request at a time, every request and every instant
Next ==
    \/ \E request \in Requests : Receive(1, request)
    \/ Follow(1)
    \/ CampaignsLoaded(1)
    \/ CampaignsFailed(1)
    \/ CouponsLoaded(1)
    \/ CouponsFailed(1)
    \/ PromoRejected(1)
    \/ Deliver(1)
    \/ Tick

Spec == Init /\ [][Next]_vars

\* NumProcs invocations interleaved at their awaits, at one instant
InitConc ==
    /\ Init
    /\ now = DateUTC(2026, 1, 1, 20, 0, 0, 0)

NextConc ==
    \E p \in Procs :
        \/ \E request \in ConcRequests : Receive(p, request)
        \/ CampaignsLoaded(p)
        \/ CampaignsFailed(p)
        \/ CouponsLoaded(p)
        \/ CouponsFailed(p)
        \/ PromoRejected(p)
        \/ Deliver(p)

SpecConc == InitConc /\ [][NextConc]_vars

(***************************************************************************)
(* vendor/integration/vite-plugin-client-overrides.ts                      *)
(*                                                                         *)
(* A path is a string with "/" and "." as symbols of their own.  The disk  *)
(* is the set of paths that exist.                                         *)
(***************************************************************************)
\* index of the last occurrence of sym in s, 0 when there is none
LastIndexOf(s, sym) ==
    IF includes(s, sym)
      THEN CHOOSE i \in 1..Len(s) : s[i] = sym /\ \A j \in (i + 1)..Len(s) : s[j] # sym
      ELSE 0

\* s.replace(pattern, replacement) with a string pattern: the first occurrence
ReplaceFirst(s, pattern, replacement) ==
    IF \E i \in 1..(Len(s) - Len(pattern) + 1) : SubSeq(s, i, i + Len(pattern) - 1) = pattern
      THEN LET i == CHOOSE k \in 1..(Len(s) - Len(pattern) + 1) :
                      /\ SubSeq(s, k, k + Len(pattern) - 1) = pattern
                      /\ \A j \in 1..(k - 1) : SubSeq(s, j, j + Len(pattern) - 1) # pattern
           IN  SubSeq(s, 1, i - 1) \o replacement \o SubSeq(s, i + Len(pattern), Len(s))
      ELSE s

\* the part of a path after its last "/"
basename(p) == SubSeq(p, LastIndexOf(p, "/") + 1, Len(p))

\* path.extname(p): from the last "." of the basename, unless that "." is the
\* basename's first character
ExtOfBase(base) ==
    IF LastIndexOf(base, ".") <= 1 THEN <<>>
    ELSE SubSeq(base, LastIndexOf(base, "."), Len(base))

extname(p) == ExtOfBase(basename(p))

\* clientPath.replace(/\.[^.]+$/, ''): the last "." of the whole path and what
\* follows it, "/" included, when something follows it
StripExtension(p) ==
    IF LastIndexOf(p, ".") = 0 \/ LastIndexOf(p, ".") = Len(p) THEN p
    ELSE SubSeq(p, 1, LastIndexOf(p, ".") - 1)

\* the segments of a path kept by normalisation: "" and "." are dropped and
\* ".." removes the segment before it
RECURSIVE NormalSegments(_, _)
NormalSegments(kept, segments) ==
    IF segments = <<>> THEN kept
    ELSE IF Head(segments) = <<>> \/ Head(segments) = <<".">>
      THEN NormalSegments(kept, Tail(segments))
    ELSE IF Head(segments) = <<".", ".">>
      THEN NormalSegments(IF kept = <<>> THEN kept ELSE SubSeq(kept, 1, Len(kept) - 1),
                          Tail(segments))
    ELSE NormalSegments(Append(kept, Head(segments)), Tail(segments))

RECURSIVE JoinAbsolute(_)
JoinAbsolute(segments) ==
    IF segments = <<>> THEN <<>>
    ELSE <<"/">> \o Head(segments) \o JoinAbsolute(Tail(segments))

\* the normal form of an absolute path
NormalizeAbsolute(p) ==
    IF NormalSegments(<<>>, Split(p, "/")) = <<>> THEN <<"/">>
    ELSE JoinAbsolute(NormalSegments(<<>>, Split(p, "/")))

\* path.resolve(root, 'src', 'client', 'components', relativePath), root
\* absolute: an absolute relativePath stands alone
pathResolve(root, relativePath) ==
    IF startsWith(relativePath, <<"/">>) THEN NormalizeAbsolute(relativePath)
    ELSE NormalizeAbsolute(root \o <<"/", "src", "/", "client", "/", "components", "/">>
                                \o relativePath)

\* an existence test that remembers the paths it once found
ExistsSyncSticky(disk, p) == p \in disk \/ p \in returned

\* fs.existsSync(p)
ExistsSync(disk, p) == p \in disk

ComponentsPrefix == <<"~", "/", "components", "/">>

\* line 46
Extensions ==
    << <<>>, <<".", "astro">>, <<".", "ts">>, <<".", "tsx">>, <<".", "js">>, <<".", "jsx">> >>

\* lines 50-58: the path one pass of the loop tests, NULL when it tests none
TestPath(clientPath, ext) ==
    IF ext = <<>>
      THEN IF extname(clientPath) # <<>> THEN Some(clientPath) ELSE NULL
      ELSE Some(StripExtension(clientPath) \o ext)

\* lines 48-68: the loop over the extensions; probed lists the paths given to
\* fs.existsSync
RECURSIVE ExtensionsLoop(_, _, _, _)
ExtensionsLoop(disk, clientPath, extensions, probed) ==
    IF extensions = <<>> THEN [result |-> NULL, probed |-> probed]
    ELSE Const(TestPath(clientPath, Head(extensions)), LAMBDA testPath :
           IF testPath = NULL
             THEN ExtensionsLoop(disk, clientPath, Tail(extensions), probed)
           ELSE IF ExistsSync(disk, testPath[1])
             THEN [result |-> testPath, probed |-> Append(probed, testPath[1])]
           ELSE ExtensionsLoop(disk, clientPath, Tail(extensions),
                               Append(probed, testPath[1])))

\* resolveId(source, _importer) with projectRoot = root
resolveId(root, disk, source) ==
    IF ~startsWith(source, ComponentsPrefix) THEN [result |-> NULL, probed |-> <<>>]
    ELSE Const(pathResolve(root, ReplaceFirst(source, ComponentsPrefix, <<>>)),
               LAMBDA clientPath : ExtensionsLoop(disk, clientPath, Extensions, <<>>))

\* config.root
Roots == { <<"/", "proj">>, <<"/", "my", ".", "site">> }

\* the directory of client overrides under a root
ClientDir(root) == root \o <<"/", "src", "/", "client", "/", "components", "/">>

\* the paths created and deleted on disk
FilePool ==
    { ClientDir(<<"/", "proj">>) \o <<"ui", "/", "Button", ".", "astro">>,
      ClientDir(<<"/", "proj">>) \o <<"ui", "/", "Button", ".", "ts">>,
      <<"/", "proj", "/", "src", "/", "client", "/", "pages", "/", "index", ".", "astro">>,
      <<"/", "my", ".", "astro">> }

\* the imports Vite asks the plugin to resolve
Sources ==
    { ComponentsPrefix \o <<"ui", "/", "Button", ".", "astro">>,
      ComponentsPrefix \o <<"ui", "/", "Button">>,
      ComponentsPrefix \o <<".", ".", "/", "pages", "/", "index", ".", "astro">>,
      <<"~", "/", "assets", "/", "logo", ".", "astro">> }

\* what is not the plugin's
notPlugin == <<mwVars, sessionVars, gaVars, mapVars, dateVars, ddVars>>

\* the middleware before any request
MiddlewareOff ==
    /\ REDIRECTS = ShippedRedirects
    /\ TZ = "UTC"
    /\ now = NoDate
    /\ pc = [p \in Procs |-> "idle"]
    /\ req = [p \in Procs |-> NoRequest]
    /\ redirects = [p \in Procs |-> <<>>]
    /\ resp = [p \in Procs |-> NoResponse]
    /\ hist = [p \in Procs |-> NoHist]

\* the plugin object as clientOverridesPlugin() returns it, on an empty disk
InitPlugin ==
    /\ PluginOff
    /\ MiddlewareOff
    /\ SessionOff
    /\ AnalyticsOff
    /\ MapOff
    /\ DatesOff
    /\ DatadogOff

\* Vite calls configResolved(config), once, before it resolves imports
configResolved(root) ==
    /\ projectRoot = NULL
    /\ projectRoot' = Some(root)
    /\ UNCHANGED <<files, call, returned, notPlugin>>

\* Vite calls resolveId(source, importer)
ResolveId(source) ==
    /\ projectRoot # NULL
    /\ call' = [source |-> source, disk |-> files] @@
                  resolveId(projectRoot[1], files, source)
    /\ returned' = returned \cup
                     (IF call'.result # NULL THEN {call'.result[1]} ELSE {})
    /\ UNCHANGED <<projectRoot, files, notPlugin>>

\* a file is created
CreateFile(f) ==
    /\ f \notin files
    /\ files' = files \cup {f}
    /\ UNCHANGED <<projectRoot, call, returned, notPlugin>>

\* a file is deleted
DeleteFile(f) ==
    /\ f \in files
    /\ files' = files \ {f}
    /\ UNCHANGED <<projectRoot, call, returned, notPlugin>>

NextPlugin ==
    \/ \E root \in Roots : configResolved(root)
    \/ \E source \in Sources : ResolveId(source)
    \/ \E f \in FilePool : CreateFile(f)
    \/ \E f \in FilePool : DeleteFile(f)

SpecPlugin == InitPlugin /\ [][NextPlugin]_vars

(***************************************************************************)
(* src/scripts/redirect-analytics.ts: the redirect chain in session        *)
(* storage                                                                 *)
(*                                                                         *)
(* JSON text is a sequence of tokens; the token of an object is the tuple  *)
(* of its field values.  A JavaScript value is an array (its items) or     *)
(* some other value.                                                       *)
(***************************************************************************)
\* "Keep only last 5 redirects"
KeepLast == 5

\* the calls storeRedirectInSession gets in a run
MaxStores == 7

Tok(s) == <<s>>

ObjTok(e) == <<"obj", e.source, e.destination, e.timestamp>>

ArrayValue(items) == [type |-> "array", items |-> items]

ObjectValue == [type |-> "object", items |-> <<>>]

\* JSON.stringify of an array of chain entries
RECURSIVE StringifyItems(_)
StringifyItems(items) ==
    IF items = <<>> THEN <<>>
    ELSE IF Len(items) = 1 THEN <<ObjTok(items[1])>>
    ELSE <<ObjTok(items[1]), Tok(",")>> \o StringifyItems(Tail(items))

JSONstringify(value) ==
    IF value.type = "array" THEN <<Tok("[")>> \o StringifyItems(value.items) \o <<Tok("]")>>
    ELSE <<Tok("{}")>>

IsObjTok(t) == Len(t) = 4 /\ t[1] = "obj"

EntryOfTok(t) == [source |-> t[2], destination |-> t[3], timestamp |-> t[4]]

\* the items between "[" and "]": objects separated by commas, NULL when the
\* tokens are not that
RECURSIVE ParseItems(_)
ParseItems(tokens) ==
    IF tokens = <<>> THEN NULL
    ELSE IF ~IsObjTok(tokens[1]) THEN NULL
    ELSE IF Len(tokens) = 1 THEN Some(<<EntryOfTok(tokens[1])>>)
    ELSE IF tokens[2] # Tok(",") THEN NULL
    ELSE Const(ParseItems(SubSeq(tokens, 3, Len(tokens))), LAMBDA rest :
           IF rest = NULL THEN NULL ELSE Some(<<EntryOfTok(tokens[1])>> \o rest[1]))

\* JSON.parse(text): NULL when it throws SyntaxError, else Some(value)
JSONparse(text) ==
    IF text = <<Tok("{}")>> THEN Some(ObjectValue)
    ELSE IF Len(text) < 2 \/ text[1] # Tok("[") \/ text[Len(text)] # Tok("]") THEN NULL
    ELSE IF Len(text) = 2 THEN Some(ArrayValue(<<>>))
    ELSE Const(ParseItems(SubSeq(text, 2, Len(text) - 1)), LAMBDA items :
           IF items = NULL THEN NULL ELSE Some(ArrayValue(items[1])))

\* sessionStorage.getItem('redirect_chain') || '[]'
ItemOrEmptyArray(item) ==
    IF item = NULL \/ item[1] = <<>> THEN <<Tok("["), Tok("]")>> ELSE item[1]

\* the push with the oldest entries kept
PushRedirectDropNewest(chain, entry) ==
    IF Len(chain) + 1 > KeepLast THEN chain ELSE Append(chain, entry)

\* lines 257-268: push, then shift when the chain is longer than 5
PushRedirect(chain, entry) ==
    IF Len(chain) + 1 > KeepLast THEN Tail(Append(chain, entry)) ELSE Append(chain, entry)

\* the text storeRedirectInSession writes for the item it read, NULL when the
\* try block throws before setItem (JSON.parse, or push on a value that is no
\* array)
ChainToStore(item, entry) ==
    Const(JSONparse(ItemOrEmptyArray(item)), LAMBDA parsed :
      IF parsed = NULL \/ parsed[1].type # "array" THEN NULL
      ELSE Some(JSONstringify(ArrayValue(PushRedirect(parsed[1].items, entry)))))

\* getRedirectChain() on the item: [] when JSON.parse throws
getRedirectChain(hasStorage, item) ==
    IF ~hasStorage THEN ArrayValue(<<>>)
    ELSE IF JSONparse(ItemOrEmptyArray(item)) = NULL THEN ArrayValue(<<>>)
    ELSE JSONparse(ItemOrEmptyArray(item))[1]

\* the redirects the interstitial page stores
ChainEntries ==
    { [source |-> "/go", destination |-> "/contact-us/", timestamp |-> "t1"],
      [source |-> "/yt", destination |-> "https://youtube.com/channel", timestamp |-> "t2"] }

\* what the redirect_chain item holds when the page starts, by origin
StartItems ==
    [absent |-> NULL,
     empty |-> Some(<<>>),
     emptyArray |-> Some(<<Tok("["), Tok("]")>>),
     invalid |-> Some(<<Tok("["), ObjTok(CHOOSE e \in ChainEntries : TRUE)>>),
     object |-> Some(<<Tok("{}")>>)]

\* what is not the session chain's
notSession == <<mwVars, pluginVars, gaVars, mapVars, dateVars, ddVars>>

InitSession ==
    /\ \E hasStorage \in BOOLEAN, origin \in DOMAIN StartItems :
          /\ browser = [hasStorage |-> hasStorage, origin |-> origin]
          /\ storage = IF hasStorage THEN StartItems[origin] ELSE NULL
    /\ stored = <<>>
    /\ got = NULL
    /\ MiddlewareOff
    /\ PluginOff
    /\ AnalyticsOff
    /\ MapOff
    /\ DatesOff
    /\ DatadogOff

\* storeRedirectInSession(params); written tells whether setItem succeeds or
\* throws (quota exceeded, storage disabled)
storeRedirectInSession(entry, written) ==
    /\ Len(stored) < MaxStores
    /\ got' = NULL
    /\ IF browser.hasStorage /\ ChainToStore(storage, entry) # NULL /\ written
         THEN /\ storage' = ChainToStore(storage, entry)
              /\ stored' = Append(stored, entry)
         ELSE UNCHANGED <<storage, stored>>
    /\ UNCHANGED <<browser, notSession>>

\* getRedirectChain()
GetRedirectChain ==
    /\ got' = Some(getRedirectChain(browser.hasStorage, storage))
    /\ UNCHANGED <<browser, storage, stored, notSession>>

NextSession ==
    \/ \E entry \in ChainEntries, written \in BOOLEAN : storeRedirectInSession(entry, written)
    \/ GetRedirectChain

SpecSession == InitSession /\ [][NextSession]_vars

(***************************************************************************)
(* src/scripts/analytics-events.ts, redirect-analytics.ts and              *)
(* promo-analytics.ts: event tracking                                      *)
(*                                                                         *)
(* A hostname is a sequence of symbols, ".local" one of them.              *)
(***************************************************************************)
\* the hostname checks without the .local one
IsDevelopmentHostNoLocal(hostname) ==
    \/ hostname = <<"localhost">>
    \/ hostname = <<"127.0.0.1">>

\* analytics-events.ts:183-186, and the first three disjuncts of isDevelopment
IsDevelopmentHost(hostname) ==
    \/ hostname = <<"localhost">>
    \/ hostname = <<"127.0.0.1">>
    \/ endsWith(hostname, <<".local">>)

\* isDevelopment() of redirect-analytics.ts and promo-analytics.ts, and the
\* typeof window check with the isDevelopment constant of initAnalyticsEvents
isDevelopment(pg, gtagDefined) ==
    \/ ~pg.hasWindow
    \/ IsDevelopmentHost(pg.hostname)
    \/ ~gtagDefined

Hostnames ==
    { <<"localhost">>, <<"127.0.0.1">>, <<"dev", ".local">>,
      <<"www", ".example", ".com">>, <<"my", "local">> }

Pages ==
    {[hasWindow |-> TRUE, hostname |-> h, readyState |-> r] :
        h \in Hostnames, r \in {"loading", "complete"}}
    \cup {[hasWindow |-> FALSE, hostname |-> <<>>, readyState |-> "complete"]}

\* the exported tracking functions and the events they send
TrackingEvents ==
    [trackRedirectInitiated |-> "redirect_initiated",
     trackRedirectClick |-> "redirect_click",
     trackCouponViewed |-> "coupon_viewed",
     trackCouponCopied |-> "coupon_copied",
     trackCampaignViewed |-> "campaign_viewed",
     trackCampaignClicked |-> "campaign_clicked",
     trackPromoRedirect |-> "promo_redirect"]

\* the document events initAnalyticsEvents listens to
DocumentEvents == {"cta_click", "phone_click", "email_click", "form_submit"}

ScrollThresholds == <<25, 50, 75, 100>>

ScrollPercents == {10, 60}

\* the thresholds a scroll position has reached
Reached(percent) == Cardinality({i \in 1..Len(ScrollThresholds) : percent >= ScrollThresholds[i]})

notAnalytics == <<mwVars, pluginVars, sessionVars, mapVars, dateVars, ddVars>>

InitAnalytics ==
    /\ page \in Pages
    /\ gtag \in BOOLEAN
    /\ autoInit = "import"
    /\ inits = 0
    /\ closure = [c \in 1..MaxInits |-> NoClosure]
    /\ gaTracked = FALSE
    /\ sent = 0
    /\ lastOp = NoOp
    /\ MiddlewareOff
    /\ PluginOff
    /\ SessionOff
    /\ MapOff
    /\ DatesOff
    /\ DatadogOff

\* the body of initAnalyticsEvents: past the guard it adds the click, submit
\* and scroll listeners and starts the visibility timer
InitBody ==
    /\ lastOp' = [fn |-> "initAnalyticsEvents", dev |-> isDevelopment(page, gtag)]
    /\ IF isDevelopment(page, gtag)
         THEN UNCHANGED <<inits, closure>>
         ELSE /\ inits < MaxInits
              /\ inits' = inits + 1
              /\ closure' = [closure EXCEPT ![inits + 1] = [NoClosure EXCEPT !.visTimer = TRUE]]

\* the module code of analytics-events.ts, lines 181-195
ImportModule ==
    /\ autoInit = "import"
    /\ IF page.hasWindow /\ ~IsDevelopmentHost(page.hostname)
         THEN IF page.readyState = "loading"
              THEN autoInit' = "waiting" /\ UNCHANGED <<inits, closure, lastOp>>
              ELSE autoInit' = "done" /\ InitBody
         ELSE autoInit' = "done" /\ UNCHANGED <<inits, closure, lastOp>>
    /\ UNCHANGED <<page, gtag, gaTracked, sent, notAnalytics>>

\* the document finishes loading: the DOMContentLoaded listener runs
DOMContentLoaded ==
    /\ page.readyState = "loading"
    /\ autoInit # "import"
    /\ page' = [page EXCEPT !.readyState = "interactive"]
    /\ IF autoInit = "waiting"
         THEN autoInit' = "done" /\ InitBody
         ELSE UNCHANGED <<autoInit, inits, closure, lastOp>>
    /\ UNCHANGED <<gtag, gaTracked, sent, notAnalytics>>

\* a page script calls the exported initAnalyticsEvents
initAnalyticsEvents ==
    /\ InitBody
    /\ UNCHANGED <<page, gtag, autoInit, gaTracked, sent, notAnalytics>>

\* the Analytics component's script defines window.gtag, or it is removed
SetGtag(defined) ==
    /\ gtag # defined
    /\ gtag' = defined
    /\ UNCHANGED <<page, autoInit, inits, closure, gaTracked, sent, lastOp, notAnalytics>>

\* one of the seven tracking functions; an external redirect_initiated also
\* sends outbound_redirect
Track(fn, external) ==
    /\ lastOp' = [fn |-> "track", dev |-> isDevelopment(page, gtag)]
    /\ IF isDevelopment(page, gtag) \/ ~gtag
         THEN sent' = sent
         ELSE /\ sent + 2 <= MaxCalls
              /\ sent' = sent + (IF fn = "trackRedirectInitiated" /\ external THEN 2 ELSE 1)
    /\ UNCHANGED <<page, gtag, autoInit, inits, closure, gaTracked, notAnalytics>>

\* a click or submit reaches the document: every registered listener calls
\* window.gtag, which throws when it is not defined
DocumentEvent(event) ==
    /\ inits > 0
    /\ IF gtag
         THEN sent + inits <= MaxCalls /\ sent' = sent + inits
         ELSE sent' = sent
    /\ UNCHANGED <<page, gtag, autoInit, inits, closure, gaTracked, lastOp, notAnalytics>>

\* the scroll listener of closure c: starts the 100 ms timeout unless one is
\* pending
Scroll(c) ==
    /\ c <= inits
    /\ ~closure[c].scrollTimeout
    /\ closure' = [closure EXCEPT ![c].scrollTimeout = TRUE]
    /\ UNCHANGED <<page, gtag, autoInit, inits, gaTracked, sent, lastOp, notAnalytics>>

\* the timeout of closure c fires: trackScrollDepth marks and sends each
\* threshold newly reached; without window.gtag the first one is marked and
\* the call throws
ScrollTimeout(c, percent) ==
    /\ c <= inits
    /\ closure[c].scrollTimeout
    /\ IF Reached(percent) <= closure[c].depth
         THEN /\ closure' = [closure EXCEPT ![c].scrollTimeout = FALSE]
              /\ sent' = sent
         ELSE IF gtag
         THEN /\ sent + (Reached(percent) - closure[c].depth) <= MaxCalls
              /\ sent' = sent + (Reached(percent) - closure[c].depth)
              /\ closure' = [closure EXCEPT ![c].scrollTimeout = FALSE,
                                             ![c].depth = Reached(percent)]
         ELSE /\ sent' = sent
              /\ closure' = [closure EXCEPT ![c].depth = closure[c].depth + 1]
    /\ UNCHANGED <<page, gtag, autoInit, inits, gaTracked, lastOp, notAnalytics>>

\* the 500 ms timer of closure c fires: trackElementVisibility observes the
\* sections
VisibilityTimeout(c) ==
    /\ c <= inits
    /\ closure[c].visTimer
    /\ closure' = [closure EXCEPT ![c].visTimer = FALSE, ![c].observing = TRUE]
    /\ UNCHANGED <<page, gtag, autoInit, inits, gaTracked, sent, lastOp, notAnalytics>>

\* the section comes into view: the observer of closure c marks it and sends
\* element_visibility once
Intersect(c) ==
    /\ c <= inits
    /\ closure[c].observing
    /\ gaTracked' = TRUE
    /\ IF ~gaTracked /\ gtag
         THEN sent + 1 <= MaxCalls /\ sent' = sent + 1
         ELSE sent' = sent
    /\ UNCHANGED <<page, gtag, autoInit, inits, closure, lastOp, notAnalytics>>

NextAnalytics ==
    \/ ImportModule
    \/ DOMContentLoaded
    \/ initAnalyticsEvents
    \/ \E defined \in BOOLEAN : SetGtag(defined)
    \/ \E fn \in DOMAIN TrackingEvents, external \in BOOLEAN : Track(fn, external)
    \/ \E event \in DocumentEvents : DocumentEvent(event)
    \/ \E c \in 1..MaxInits : Scroll(c)
    \/ \E c \in 1..MaxInits, percent \in ScrollPercents : ScrollTimeout(c, percent)
    \/ \E c \in 1..MaxInits : VisibilityTimeout(c)
    \/ \E c \in 1..MaxInits : Intersect(c)

SpecAnalytics == InitAnalytics /\ [][NextAnalytics]_vars

(***************************************************************************)
(* The Google Map script (initGoogleMap, searchPlace, geocodeAddress,      *)
(* createMap)                                                              *)
(*                                                                         *)
(* A data attribute is NULL (absent) or Some(text).  A run records the     *)
(* methods it attempted with their results, the createMap calls and the    *)
(* errors showError displayed.                                             *)
(***************************************************************************)
\* the retry timers of a run
MaxRetries == 2

\* a data attribute that is set and not the empty string
Truthy(attr) == attr # NULL /\ attr[1] # ""

\* JSON.parse of data-coordinates followed by coords.lat && coords.lng: the
\* coordinates to use, NULL when the parse or the property read throws or a
\* member is missing or 0
CoordinatesOf(text) ==
    CASE text = "{\"lat\":47.6,\"lng\":-122.3}" -> Some([lat |-> "47.6", lng |-> "-122.3"])
      [] text = "{\"lat\":0,\"lng\":-122.3}" -> NULL
      [] text = "{\"lat\":47.6}" -> NULL
      [] text = "null" -> NULL
      [] OTHER -> NULL

CoordinateTexts ==
    { "{\"lat\":47.6,\"lng\":-122.3}", "{\"lat\":0,\"lng\":-122.3}",
      "{\"lat\":47.6}", "null", "47.6,-122.3", "" }

MapConfigs ==
    [id : {"", "map-1"},
     placeName : {NULL, Some(""), Some("Acme HQ")},
     address : {NULL, Some(""), Some("1 Main St")},
     coordinates : {NULL} \cup {Some(t) : t \in CoordinateTexts}]

\* what findPlaceFromQuery and geocode can answer
PlaceOutcomes == {"ok", "noGeometry", "failed", "threw"}

GeocodeOutcomes == {"ok", "failed", "threw"}

\* what the Map, Marker and InfoWindow constructors of createMap can do
CreateOutcomes == {"shown", "threw"}

\* createMap(...) in a run: the call is counted; a constructor that throws
\* shows "Failed to create map"
createMap(run, outcome) ==
    [run EXCEPT !.created = @ + 1,
                !.errors = IF outcome = "threw" THEN @ \cup {"Failed to create map"} ELSE @]

\* the run after a method answered
Attempted(run, method, ok, outcome) ==
    [(IF ok THEN createMap(run, outcome) ELSE run)
        EXCEPT !.success = ok, !.attempts = Append(@, [method |-> method, ok |-> ok])]

\* the geocoding condition without the success test
ShouldGeocodeAlways(success, config) == Truthy(config.address)

\* Priority 2: if (!success && config.address)
ShouldGeocode(success, config) == ~success /\ Truthy(config.address)

\* Priority 3 and the final error: lines 275-293
CoordinatesStep(run, config, outcome) ==
    Const(IF ~run.success /\ Truthy(config.coordinates)
            THEN Attempted(run, "coordinates", CoordinatesOf(config.coordinates[1]) # NULL, outcome)
            ELSE run,
          LAMBDA r :
            [r EXCEPT !.pc = "done",
                      !.errors = IF ~r.success THEN @ \cup {"Unable to locate"} ELSE @])

\* the run from the address test on: it awaits geocodeAddress or finishes
AddressStep(run, config, outcome) ==
    IF ShouldGeocode(run.success, config)
      THEN [run EXCEPT !.pc = "geocodeAddress"]
      ELSE CoordinatesStep(run, config, outcome)

\* the run from the top of the try block: it awaits searchPlace or goes on
PlaceStep(run, config, outcome) ==
    IF Truthy(config.placeName)
      THEN [run EXCEPT !.pc = "searchPlace"]
      ELSE AddressStep(run, config, outcome)

notMap == <<mwVars, pluginVars, sessionVars, gaVars, dateVars, ddVars>>

InitMap ==
    /\ mapConfig \in MapConfigs
    /\ google \in BOOLEAN
    /\ mapRun = NoRun
    /\ retries = 0
    /\ MiddlewareOff
    /\ PluginOff
    /\ SessionOff
    /\ AnalyticsOff
    /\ DatesOff
    /\ DatadogOff

\* initGoogleMap(element) up to its first await: called by initAllGoogleMaps,
\* by its own retry timer, and again after a view transition
initGoogleMap(outcome) ==
    /\ mapRun.pc \in {"idle", "retry", "done"}
    /\ IF mapConfig.id = ""
         THEN mapRun' = [NoRun EXCEPT !.pc = "done"] /\ UNCHANGED retries
         ELSE IF ~google
         THEN /\ retries < MaxRetries
              /\ retries' = retries + 1
              /\ mapRun' = [NoRun EXCEPT !.pc = "retry"]
         ELSE /\ mapRun' = PlaceStep(NoRun, mapConfig, outcome)
              /\ UNCHANGED retries
    /\ UNCHANGED <<mapConfig, google, notMap>>

\* the Google Maps script finishes loading
GoogleLoaded ==
    /\ ~google
    /\ google' = TRUE
    /\ UNCHANGED <<mapConfig, mapRun, retries, notMap>>

\* searchPlace settles: the callback of findPlaceFromQuery, or the catch
PlaceSettled(answer, outcome) ==
    /\ mapRun.pc = "searchPlace"
    /\ mapRun' = AddressStep(Attempted(mapRun, "placeName", answer = "ok", outcome),
                             mapConfig, outcome)
    /\ UNCHANGED <<mapConfig, google, retries, notMap>>

\* geocodeAddress settles: the callback of geocode, or the catch
GeocodeSettled(answer, outcome) ==
    /\ mapRun.pc = "geocodeAddress"
    /\ mapRun' = CoordinatesStep(Attempted(mapRun, "address", answer = "ok", outcome),
                                 mapConfig, outcome)
    /\ UNCHANGED <<mapConfig, google, retries, notMap>>

NextMap ==
    \/ \E outcome \in CreateOutcomes : initGoogleMap(outcome)
    \/ GoogleLoaded
    \/ \E answer \in PlaceOutcomes, outcome \in CreateOutcomes : PlaceSettled(answer, outcome)
    \/ \E answer \in GeocodeOutcomes, outcome \in CreateOutcomes : GeocodeSettled(answer, outcome)

SpecMap == InitMap /\ [][NextMap]_vars

(***************************************************************************)
(* createPacificEndOfDay on the dates of the calendar                      *)
(***************************************************************************)
\* the calendar dates of a common year and a leap year, month 0-based
CalendarDates ==
    {[year |-> y, month |-> m, day |-> d] :
        <<y, m, d>> \in {c \in {2026, 2028} \X (0..11) \X (1..31) : c[3] <= daysInMonth(c[1], c[2])}}

notDates == <<mwVars, pluginVars, sessionVars, gaVars, mapVars, ddVars>>

InitDates ==
    /\ endArg \in CalendarDates
    /\ endOfDay = NULL
    /\ MiddlewareOff
    /\ PluginOff
    /\ SessionOff
    /\ AnalyticsOff
    /\ MapOff
    /\ DatadogOff

\* createPacificEndOfDay(year, month, day) is called and returns
CreatePacificEndOfDay ==
    /\ endOfDay = NULL
    /\ endOfDay' = Some(createPacificEndOfDay(endArg.year, endArg.month, endArg.day))
    /\ UNCHANGED <<endArg, notDates>>

\* the caller goes on to another expiration date
NextDate(date) ==
    /\ endOfDay # NULL
    /\ endArg' = date
    /\ endOfDay' = NULL
    /\ UNCHANGED notDates

NextDates ==
    \/ CreatePacificEndOfDay
    \/ \E date \in CalendarDates : NextDate(date)

SpecDates == InitDates /\ [][NextDates]_vars

(***************************************************************************)
(* The Datadog RUM script: initDatadogRUM, tryInit and the module code     *)
(***************************************************************************)
\* the direct calls of the exported initDatadogRUM in a run
MaxDirectCalls == 2

\* the tryInit runs that are told apart; later ones count as this one
MaxCounted == 4

\* !config || !config.applicationId || !config.clientToken, negated
ConfigComplete(config) ==
    config # NULL /\ config[1].applicationId # "" /\ config[1].clientToken # ""

\* what the page can assign to window.__DATADOG_CONFIG__
DatadogConfigs ==
    {NULL} \cup {Some([applicationId |-> a, clientToken |-> t, site |-> site]) :
                   a \in {"", "app-1"}, t \in {"", "pub-1"},
                   site \in {"datadoghq.com", "datadoghq.eu"}}

\* the datadogRum.init calls of one initDatadogRUM()
RumInitsOf(config) == IF ConfigComplete(config) THEN 1 ELSE 0

\* a tryInit that sets its timer whatever it finds
RetriesAlways(config) == 1

\* the setTimeout(tryInit, 50) calls of one tryInit()
RetriesOf(config) == IF ConfigComplete(config) THEN 0 ELSE 1

\* the initDatadogRUM() calls of one tryInit()
CallsOf(config) == IF ConfigComplete(config) THEN 1 ELSE 0

notDatadog == <<mwVars, pluginVars, sessionVars, gaVars, mapVars, dateVars>>

InitDatadog ==
    /\ ddConfig \in DatadogConfigs
    /\ ddStage \in [at : {"import"}, readyState : {"loading", "interactive", "complete"}]
    /\ ddPending = 0
    /\ chainCalls = 0
    /\ rumInits = 0
    /\ lastAttempt = NoAttempt
    /\ MiddlewareOff
    /\ PluginOff
    /\ SessionOff
    /\ AnalyticsOff
    /\ MapOff
    /\ DatesOff

\* tryInit() with `fired` of the pending timers consumed by this run
tryInit(fired) ==
    /\ lastAttempt' = [n |-> IF lastAttempt.n < MaxCounted THEN lastAttempt.n + 1 ELSE MaxCounted,
                        complete |-> ConfigComplete(ddConfig),
                        scheduled |-> RetriesOf(ddConfig), called |-> CallsOf(ddConfig)]
    /\ ddPending' = ddPending - fired + RetriesOf(ddConfig)
    /\ chainCalls' = chainCalls + CallsOf(ddConfig)
    /\ rumInits' = rumInits + CallsOf(ddConfig) * RumInitsOf(ddConfig)

\* the module code: tryInit now, or on DOMContentLoaded while the document
\* is loading
DatadogModule ==
    /\ ddStage.at = "import"
    /\ IF ddStage.readyState = "loading"
         THEN /\ ddStage' = [ddStage EXCEPT !.at = "listening"]
              /\ UNCHANGED <<ddPending, chainCalls, rumInits, lastAttempt>>
         ELSE /\ ddStage' = [ddStage EXCEPT !.at = "started"]
              /\ tryInit(0)
    /\ UNCHANGED <<ddConfig, notDatadog>>

\* the DOMContentLoaded listener runs tryInit
DatadogDOMContentLoaded ==
    /\ ddStage.at = "listening"
    /\ ddStage' = [at |-> "started", readyState |-> "interactive"]
    /\ tryInit(0)
    /\ UNCHANGED <<ddConfig, notDatadog>>

\* a 50 ms timer fires and runs tryInit
RetryTimer ==
    /\ ddPending > 0
    /\ tryInit(1)
    /\ UNCHANGED <<ddConfig, ddStage, notDatadog>>

\* the page's inline script assigns window.__DATADOG_CONFIG__, in one piece
\* or member by member; nothing takes a complete configuration away
SetDatadogConfig(config) ==
    /\ ~ConfigComplete(ddConfig)
    /\ ddConfig # config
    /\ ddConfig' = config
    /\ UNCHANGED <<ddStage, ddPending, chainCalls, rumInits, lastAttempt, notDatadog>>

\* some other script calls the exported initDatadogRUM()
initDatadogRUM ==
    /\ rumInits - chainCalls < MaxDirectCalls
    /\ rumInits' = rumInits + RumInitsOf(ddConfig)
    /\ UNCHANGED <<ddConfig, ddStage, ddPending, chainCalls, lastAttempt, notDatadog>>

NextDatadog ==
    \/ DatadogModule
    \/ DatadogDOMContentLoaded
    \/ RetryTimer
    \/ \E config \in DatadogConfigs : SetDatadogConfig(config)
    \/ initDatadogRUM

SpecDatadog == InitDatadog /\ [][NextDatadog]_vars

\* the browser loads the module, fires DOMContentLoaded and fires every timer
FairSpecDatadog ==
    /\ SpecDatadog
    /\ WF_vars(DatadogModule)
    /\ WF_vars(DatadogDOMContentLoaded)
    /\ WF_vars(RetryTimer)

(***************************************************************************)
(* Properties                                                              *)
(***************************************************************************)
Done(p) == pc[p] = "done"

\* the search parameters of the interstitial URL invocation p answered with
LocParams(p) == ParseQuery(RequestOfLocation(resp[p].location).search)

InterstitialPaths == {<<"/", "redirect">>, <<"/", "redirect", "/">>}

InStatic(pathname) ==
    \/ cleanPath(pathname) \in DOMAIN REDIRECTS
    \/ cleanPath(pathname) \o <<"/">> \in DOMAIN REDIRECTS

\* C1: when the promo lookup of a request did not throw and found a redirect,
\* the response is built from that promo redirect, also when the static table
\* has an entry for the path; a static entry is applied only when the promo
\* lookup returned null or threw.
PromoBeforeStatic ==
    \A p \in Procs :
        (Done(p) /\ req[p].pathname \notin InterstitialPaths) =>
            /\ (hist[p].failed # "promo" /\ LookupPath(redirects[p], req[p].pathname) # NULL) =>
                   /\ resp[p].kind = "redirect"
                   /\ ParamsGet(LocParams(p), <<"dest">>) =
                          Some(Destination(LookupPath(redirects[p], req[p].pathname)[1],
                                           req[p].search))
                   /\ ParamsGet(LocParams(p), <<"category">>) =
                          Some(LookupPath(redirects[p], req[p].pathname)[1].category)
            /\ hist[p].from = "static" =>
                   \/ hist[p].failed = "promo"
                   \/ LookupPath(redirects[p], req[p].pathname) = NULL

\* a request for /go, which the static table and an active campaign both
\* name, answered from the campaign
PromoBeforeStaticWitness ==
    \E p \in Procs :
        /\ Done(p)
        /\ hist[p].failed = "none"
        /\ cleanPath(req[p].pathname) \in DOMAIN redirects[p]
        /\ cleanPath(req[p].pathname) \in DOMAIN REDIRECTS
        /\ resp[p].kind = "redirect"
        /\ ParamsGet(LocParams(p), <<"category">>) = Some(<<"promo">>)

\* C2: a request for /redirect or /redirect/ is passed on without any table
\* being consulted, whatever the tables hold; the request a client makes when it
\* follows a redirect of the middleware is for /redirect/ and is passed on, so a
\* chain of followed redirects has one redirect at most.
InterstitialNeverRedirected ==
    \A p \in Procs :
        /\ hist[p].hops <= 1
        /\ (Done(p) /\ req[p].pathname \in InterstitialPaths) =>
               /\ resp[p] = NextResponse
               /\ hist[p].consulted = {}
        /\ hist[p].hops >= 1 =>
               /\ Done(p)
               /\ req[p].pathname = <<"/", "redirect", "/">>
               /\ resp[p].kind = "next"

\* a followed redirect passed on while the static table holds an entry for
\* /redirect
InterstitialNeverRedirectedWitness ==
    \E p \in Procs :
        /\ Done(p)
        /\ hist[p].hops = 1
        /\ <<"/", "redirect">> \in DOMAIN REDIRECTS
        /\ resp[p].kind = "next"

PermanentServedWith308 ==
    \A p \in Procs :
        (Done(p) /\ hist[p].redirect # NULL) =>
            resp[p].status = IF hist[p].redirect[1].permanent THEN 308 ELSE 307

\* C5: for every hardcoded UTM key of the applied redirect, the interstitial
\* URL carries the request's value (the last one the request gives) when the
\* request supplies the key; it carries the hardcoded value only when the
\* request does not supply the key and the value is not empty; an empty
\* hardcoded value is never added.
UserParamsTakePrecedence ==
    \A p \in Procs :
        (Done(p) /\ hist[p].redirect # NULL /\ hist[p].redirect[1].utmParams # NULL) =>
            \A i \in 1..Len(hist[p].redirect[1].utmParams[1]) :
                \E given \in {ParamsGetAll(ParseQuery(req[p].search),
                                           hist[p].redirect[1].utmParams[1][i][1])} :
                    ParamsGetAll(LocParams(p), hist[p].redirect[1].utmParams[1][i][1]) =
                        IF given # <<>> THEN <<given[Len(given)]>>
                        ELSE IF hist[p].redirect[1].utmParams[1][i][2] # <<>>
                               THEN <<hist[p].redirect[1].utmParams[1][i][2]>>
                               ELSE <<>>

\* /test?utm_source=x: the request's utm_source replaces example-source
UserParamsTakePrecedenceWitness ==
    \E p \in Procs :
        /\ Done(p)
        /\ hist[p].redirect # NULL
        /\ hist[p].redirect[1].utmParams =
               Some(<< <<<<"utm_source">>, <<"example-source">>>>,
                       <<<<"utm_medium">>, <<"example-medium">>>>,
                       <<<<"utm_campaign">>, <<"example-campaign">>>> >>)
        /\ ParamsGetAll(ParseQuery(req[p].search), <<"utm_source">>) = <<<<"x">>>>
        /\ ParamsGetAll(LocParams(p), <<"utm_source">>) = <<<<"x">>>>

\* C6: the interstitial URL carries source, dest, type and category once each
\* with the values the middleware computed (category only for a redirect that
\* has one), whatever the request's query names; and every parameter of the
\* request under another name is a parameter of the interstitial URL.
TrackingParamsProtected ==
    \A p \in Procs :
        (Done(p) /\ hist[p].redirect # NULL) =>
            /\ ParamsGetAll(LocParams(p), <<"source">>) = <<req[p].pathname>>
            /\ ParamsGetAll(LocParams(p), <<"dest">>) =
                   <<Destination(hist[p].redirect[1], req[p].search)>>
            /\ ParamsGetAll(LocParams(p), <<"type">>) = <<TypeOf(hist[p].redirect[1])>>
            /\ ParamsGetAll(LocParams(p), <<"category">>) =
                   IF hist[p].redirect[1].category # <<>>
                     THEN <<hist[p].redirect[1].category>> ELSE <<>>
            /\ \A i \in 1..Len(ParseQuery(req[p].search)) :
                   ParseQuery(req[p].search)[i][1] \notin TrackingParams =>
                       \E j \in 1..Len(LocParams(p)) :
                           LocParams(p)[j] = ParseQuery(req[p].search)[i]

\* C7 as stated: on a relative destination and a non-empty query string, dest
\* is the destination, "?" (or "&" when the destination has a "?") and the query
\* string; otherwise dest is the configured destination.
QueryPreservedVerbatim ==
    \A p \in Procs :
        (Done(p) /\ hist[p].redirect # NULL) =>
            ParamsGet(LocParams(p), <<"dest">>) =
                Some(IF /\ ~startsWith(hist[p].redirect[1].destination, <<"http", ":", "/", "/">>)
                        /\ ~startsWith(hist[p].redirect[1].destination, <<"https", ":", "/", "/">>)
                        /\ req[p].search # <<>>
                       THEN hist[p].redirect[1].destination \o
                            (IF includes(hist[p].redirect[1].destination, "?")
                               THEN <<"&">> ELSE <<"?">>) \o
                            req[p].search
                       ELSE hist[p].redirect[1].destination)

\* C7, amended: on a relative destination and a request with at least one
\* query parameter, dest is the destination, "?" (or "&" when the destination
\* has a "?") and the request's parameters as URLSearchParams serialises them
\* again; on an absolute destination, or a request without parameters, dest is
\* the configured destination.
QueryPreservedOnRelative ==
    \A p \in Procs :
        (Done(p) /\ hist[p].redirect # NULL) =>
            ParamsGet(LocParams(p), <<"dest">>) =
                Some(IF /\ ~startsWith(hist[p].redirect[1].destination, <<"http", ":", "/", "/">>)
                        /\ ~startsWith(hist[p].redirect[1].destination, <<"https", ":", "/", "/">>)
                        /\ ParseQuery(req[p].search) # <<>>
                       THEN hist[p].redirect[1].destination \o
                            (IF includes(hist[p].redirect[1].destination, "?")
                               THEN <<"&">> ELSE <<"?">>) \o
                            SerializeParams(ParseQuery(req[p].search))
                       ELSE hist[p].redirect[1].destination)

\* /book?flag: the destination has a "?" already and the parameter is written
\* again as flag=
QueryPreservedOnRelativeWitness ==
    \E p \in Procs :
        /\ Done(p)
        /\ hist[p].redirect # NULL
        /\ req[p].search = <<"flag">>
        /\ ParamsGet(LocParams(p), <<"dest">>) =
               Some(<<"/", "contact-us", "/", "?", "action", "=", "book", "&", "flag", "=">>)

\* C8: every request not for the interstitial is answered, by a redirect or by
\* next(); when getCollection('campaigns') throws getPromoRedirects returns the
\* empty map, when getCollection('coupons') throws it returns the campaigns'
\* redirects; when getPromoRedirect throws the request is redirected exactly
\* when the static table has its path, and by that entry.
PromoFailureFallsThrough ==
    \A p \in Procs :
        (Done(p) /\ req[p].pathname \notin InterstitialPaths) =>
            /\ resp[p].kind \in {"redirect", "next"}
            /\ hist[p].failed = "campaigns" => redirects[p] = <<>>
            /\ hist[p].failed = "coupons" =>
                   redirects[p] = CampaignsLoop(<<>>, Campaigns, TZ, hist[p].campaignsAt)
            /\ hist[p].failed = "promo" =>
                   /\ resp[p].kind = "redirect" <=> InStatic(req[p].pathname)
                   /\ resp[p].kind = "redirect" =>
                          ParamsGet(LocParams(p), <<"dest">>) =
                              Some(Destination(getRedirect(REDIRECTS, req[p].pathname)[1],
                                               req[p].search))

\* getCollection('coupons') threw after an active campaign was collected, and
\* the request for the campaign's short URL is redirected
PromoFailureFallsThroughWitness ==
    \E p \in Procs :
        /\ Done(p)
        /\ hist[p].failed = "coupons"
        /\ redirects[p] # <<>>
        /\ hist[p].from = "promo"
        /\ resp[p].kind = "redirect"

\* the response of a request handled alone: with the given failure, new Date()
\* reading campaignsAt in the campaign loop and couponsAt in the coupon loop
PromoMapAlone(failed, campaignsAt, couponsAt) ==
    IF failed = "campaigns" THEN <<>>
    ELSE IF failed = "coupons" THEN CampaignsLoop(<<>>, Campaigns, TZ, campaignsAt)
    ELSE Const(CampaignsLoop(<<>>, Campaigns, TZ, campaignsAt),
               LAMBDA fromCampaigns : CouponsLoop(fromCampaigns, Coupons, TZ, couponsAt))

HandledAlone(request, failed, campaignsAt, couponsAt) ==
    IF request.pathname \in InterstitialPaths THEN NextResponse
    ELSE IF failed = "promo" THEN Respond(request, getRedirect(REDIRECTS, request.pathname))
    ELSE Const(PromoMapAlone(failed, campaignsAt, couponsAt), LAMBDA map :
         Const(Resolve(REDIRECTS, request.pathname, LookupPath(map, request.pathname)),
               LAMBDA redirect : Respond(request, redirect)))

AnsweredAsAlone ==
    \A p \in Procs :
        Done(p) => resp[p] = HandledAlone(req[p], hist[p].failed,
                                          hist[p].campaignsAt, hist[p].couponsAt)

\* C9: no step of any request changes the static table, and under every
\* interleaving of the requests at their awaits each response is the one the
\* request gets when it is handled alone with the same content and date.
NoSharedMutableState == [][REDIRECTS' = REDIRECTS]_vars /\ []AnsweredAsAlone

\* two requests in flight at once, one answered from a campaign while the
\* other is between its awaits
NoSharedMutableStateWitness ==
    \E p, q \in Procs :
        /\ p # q
        /\ Done(p)
        /\ hist[p].from = "promo"
        /\ pc[q] = "coupons"
        /\ redirects[q] # <<>>

\* today's calendar date in Pacific time when the campaign loop ran, as a day
\* number
PacificDay(t) == ToZone(PacificOffset(t), t).day

\* C10: after the campaign loop, the short URL of a campaign that has one is in
\* the map exactly when startDate <= D <= endDate, D being the Pacific calendar
\* date at which the loop ran and the dates those written in the content file.
CampaignRegisteredIffActive ==
    \A p \in Procs :
        pc[p] = "coupons" =>
            \A i \in 1..Len(Campaigns) :
                Campaigns[i].shortUrl # <<>> =>
                    (WithLeadingSlash(Campaigns[i].shortUrl) \in DOMAIN redirects[p]
                        <=> /\ Campaigns[i].startDate.day <= PacificDay(hist[p].campaignsAt)
                            /\ PacificDay(hist[p].campaignsAt) <= Campaigns[i].endDate.day)

\* the short URLs a coupon asks for: its own and those of its campaign links
CouponShortUrls(coupon) ==
    (IF coupon.shortUrl # <<>> THEN {WithLeadingSlash(coupon.shortUrl)} ELSE {}) \cup
    (IF coupon.campaignLinks # NULL
       THEN {WithLeadingSlash(coupon.campaignLinks[1][k][2].shortUrl) :
               k \in {j \in 1..Len(coupon.campaignLinks[1]) :
                        coupon.campaignLinks[1][j][2].shortUrl # <<>>}}
       ELSE {})

\* C11: after the coupon loop, every short URL of a coupon is in the map
\* exactly when expirationDate >= D, D being the Pacific calendar date at which
\* the loop ran and the expiration date the one written in the content file.
CouponRegisteredIffNotExpired ==
    \A p \in Procs :
        (Done(p) /\ hist[p].failed = "none" /\ hist[p].couponsAt # NoDate) =>
            \A i \in 1..Len(Coupons) :
                \A shortUrl \in CouponShortUrls(Coupons[i]) :
                    (shortUrl \in DOMAIN redirects[p]
                        <=> PacificDay(hist[p].couponsAt) <= Coupons[i].expirationDate.day)

\* p, p + '/' and p without its leading slash
PathVariants(path) ==
    {path, path \o <<"/">>, IF startsWith(path, <<"/">>) THEN Tail(path) ELSE path}

\* a table key without its trailing slash
KeyPath(key) == IF endsWith(key, <<"/">>) /\ key # <<"/">> THEN sliceDropLast(key) ELSE key

\* the table holds an entry for the path, keyed with or without trailing slash
HasEntry(table, path) == \E key \in DOMAIN table : KeyPath(key) = path

\* the three spellings of path get the same answer from the static table and
\* from the promo map; a path without entry and the empty path get null
SameForVariants(table, map, path) ==
    /\ \A v \in PathVariants(path) :
          /\ getRedirect(table, v) = getRedirect(table, path)
          /\ getPromoRedirect(map, v) = getPromoRedirect(map, path)
    /\ ~HasEntry(table, path) => getRedirect(table, path) = NULL
    /\ ~HasEntry(map, path) => getPromoRedirect(map, path) = NULL
    /\ getRedirect(table, <<>>) = NULL
    /\ getPromoRedirect(map, <<>>) = NULL

IsCanonicalPath(path) ==
    /\ Len(path) >= 2
    /\ path[1] = "/"
    /\ path[2] # "/"
    /\ ~endsWith(path, <<"/">>)

Called == call.source # <<>>

\* the import names a component: it starts with ~/components/
IsComponentImport(source) == startsWith(source, ComponentsPrefix)

\* <rel> of an import ~/components/<rel>
RelativeOf(source) == SubSeq(source, Len(ComponentsPrefix) + 1, Len(source))

\* src/client/components/<rel> under the project root
OverrideOf(source) == ClientDir(projectRoot[1]) \o RelativeOf(source)

\* C13: an import from ~/components/<rel> resolves to the client file
\* src/client/components/<rel> when that file exists at the time of the call
\* and to null when it does not; any other import resolves to null and no
\* path is tested on disk.
ClientVersionIffOverrideExists ==
    Called =>
        IF IsComponentImport(call.source)
          THEN call.result = IF OverrideOf(call.source) \in call.disk
                               THEN Some(OverrideOf(call.source)) ELSE NULL
          ELSE call.result = NULL /\ call.probed = <<>>

\* a path resolveId returns exists on disk at the time of the call
ReturnsOnlyExistingFiles == Called /\ call.result # NULL => call.result[1] \in call.disk

OverrideMatchesImportExactly ==
    (Called /\ call.result # NULL) => call.result = Some(OverrideOf(call.source))

\* the last n items of a sequence
LastN(seq, n) == SubSeq(seq, Len(seq) - n + 1, Len(seq))

\* the page started with an empty or absent redirect_chain
StartedEmpty == browser.hasStorage /\ browser.origin \in {"absent", "empty", "emptyArray"}

\* the chain the redirect_chain item holds
StoredChain == JSONparse(ItemOrEmptyArray(storage))

\* C15: starting from an empty or absent redirect_chain, the stored chain
\* always parses as an array of at most 5 entries, the most recent min(n, 5)
\* of the n redirects written, in call order; getRedirectChain returns that
\* chain, and returns [] when the item is absent or is not valid JSON.
RedirectChainKeepsLastFive ==
    /\ StartedEmpty =>
          /\ StoredChain # NULL
          /\ StoredChain[1].type = "array"
          /\ Len(StoredChain[1].items) <= 5
          /\ StoredChain[1].items =
                LastN(stored, IF Len(stored) < 5 THEN Len(stored) ELSE 5)
          /\ got # NULL => got[1] = StoredChain[1]
    /\ (got # NULL /\ browser.hasStorage /\ (storage = NULL \/ browser.origin = "invalid"))
          => got[1] = ArrayValue(<<>>)

\* seven redirects were written, two of them shifted out, and the chain was
\* read back
RedirectChainKeepsLastFiveWitness ==
    /\ got # NULL
    /\ StartedEmpty
    /\ Len(stored) = 7
    /\ stored[1] # stored[3]

\* the page is not a production page with analytics loaded
InDevelopment ==
    \/ ~page.hasWindow
    \/ page.hostname \in {<<"localhost">>, <<"127.0.0.1">>}
    \/ (Len(page.hostname) > 0 /\ page.hostname[Len(page.hostname)] = ".local")
    \/ ~gtag

\* C16: while the hostname is localhost, 127.0.0.1 or ends with .local, or
\* window.gtag is not defined, no step registers the listeners of
\* initAnalyticsEvents and no step calls gtag.
NoTrackingInDevelopment ==
    [][InDevelopment => (inits' = inits /\ sent' = sent)]_vars

\* a tracking function was the last function called and sent nothing, on a production host
\* whose listeners are registered and whose gtag has gone away after events
\* were sent
NoTrackingInDevelopmentWitness ==
    /\ lastOp.fn = "track"
    /\ lastOp.dev
    /\ ~gtag
    /\ inits > 0
    /\ sent > 0

\* the methods a run attempted, in order
Methods == [i \in 1..Len(mapRun.attempts) |-> mapRun.attempts[i].method]

\* the run attempted the method and it failed
Failed(method) ==
    \E i \in 1..Len(mapRun.attempts) :
        mapRun.attempts[i].method = method /\ ~mapRun.attempts[i].ok

\* the run is past the point where it would have tried the method
Past(method) ==
    CASE method = "placeName" -> mapRun.pc \in {"searchPlace", "geocodeAddress", "done"} /\ mapConfig.id # ""
      [] method = "address" -> mapRun.pc \in {"geocodeAddress", "done"} /\ mapConfig.id # ""
      [] OTHER -> mapRun.pc = "done" /\ mapConfig.id # ""

\* C17: a run tries the place name first when one is configured; it
\* geocodes the address only when the place search was not configured or
\* failed, and uses the coordinates only when both were not configured or
\* failed; it calls createMap at most once; and when it has finished,
\* 'Unable to locate' is shown exactly when no method succeeded.
MapLocatesInPriorityOrder ==
    /\ (Past("placeName") /\ Truthy(mapConfig.placeName)) =>
          (Len(mapRun.attempts) = 0 \/ Methods[1] = "placeName")
    /\ (\E i \in 1..Len(Methods) : Methods[i] = "address" \/ mapRun.pc = "geocodeAddress") =>
          (~Truthy(mapConfig.placeName) \/ Failed("placeName"))
    /\ (\E i \in 1..Len(Methods) : Methods[i] = "coordinates") =>
          /\ ~Truthy(mapConfig.placeName) \/ Failed("placeName")
          /\ ~Truthy(mapConfig.address) \/ Failed("address")
    /\ \A i, j \in 1..Len(Methods) : Methods[i] = Methods[j] => i = j
    /\ mapRun.created <= 1
    /\ Past("coordinates") =>
          ("Unable to locate" \in mapRun.errors
             <=> ~\E i \in 1..Len(mapRun.attempts) : mapRun.attempts[i].ok)

\* a run whose place search and geocoding failed located the map by its
\* coordinates
MapLocatesInPriorityOrderWitness ==
    /\ mapRun.pc = "done"
    /\ Methods = <<"placeName", "address", "coordinates">>
    /\ mapRun.attempts[3].ok
    /\ mapRun.created = 1
    /\ mapRun.errors = {}

\* the calendar date after a date
DayAfter(date) ==
    IF date.day < daysInMonth(date.year, date.month)
      THEN [year |-> date.year, month |-> date.month, day |-> date.day + 1]
    ELSE IF date.month = 11 THEN [year |-> date.year + 1, month |-> 0, day |-> 1]
    ELSE [year |-> date.year, month |-> date.month + 1, day |-> 1]

\* t is 23:59:59.999 Pacific time on the date: hour 7 UTC of the day after on
\* standard time, hour 6 on daylight time
IsPacificEndOfDay(t, date, offset) ==
    /\ offset \in {-8, -7}
    /\ ToZone(offset, t) = [day |-> MakeDay(date.year, date.month, date.day), ms |-> MsPerDay - 1]
    /\ t = DateUTC(DayAfter(date).year, DayAfter(date).month, DayAfter(date).day,
                   IF offset = -8 THEN 7 ELSE 6, 59, 59, 999)

\* C18: createPacificEndOfDay(year, month, day) is the instant whose Pacific
\* wall-clock reading is 23:59:59.999 of that date: 07:59:59.999 UTC (PST) or
\* 06:59:59.999 UTC (PDT) of the next calendar day, also across the end of a
\* month and of the year.
EndOfDayIsLastPacificInstant ==
    endOfDay # NULL => IsPacificEndOfDay(endOfDay[1], endArg, PacificOffset(endOfDay[1]))

\* December 31 gave 07:59:59.999 UTC of January 1
EndOfDayIsLastPacificInstantWitness ==
    /\ endArg = [year |-> 2026, month |-> 11, day |-> 31]
    /\ endOfDay = Some(DateUTC(2027, 0, 1, 7, 59, 59, 999))

\* a step in which tryInit ran
TryInitStep == lastAttempt' # lastAttempt \/ chainCalls' # chainCalls \/ ddPending' # ddPending

\* tryInit calls initDatadogRUM only on a complete configuration, sets
\* exactly one timer when it is not complete and none when it is
AttemptWaitsForConfig ==
    lastAttempt.n > 0 =>
       IF lastAttempt.complete
         THEN lastAttempt.called = 1 /\ lastAttempt.scheduled = 0
         ELSE lastAttempt.called = 0 /\ lastAttempt.scheduled = 1

\* the chain is one timer or one call: never both, never two
OneChain ==
    /\ ddPending + chainCalls <= 1
    /\ chainCalls = 1 => (lastAttempt.complete /\ ddPending = 0)
    /\ chainCalls <= rumInits

\* C20: tryInit calls initDatadogRUM only when window.__DATADOG_CONFIG__ has
\* applicationId and clientToken; an attempt on an incomplete configuration
\* schedules exactly one retry; the chain calls initDatadogRUM exactly once,
\* on the first attempt that finds the configuration complete, and schedules
\* nothing after it; and if the configuration becomes complete,
\* datadogRum.init is eventually called.
DatadogWaitsForConfig ==
    /\ [](AttemptWaitsForConfig /\ OneChain)
    /\ [][(chainCalls' # chainCalls) => (ConfigComplete(ddConfig) /\ chainCalls = 0)]_vars
    /\ [][(chainCalls = 1) => (ddPending' = 0 /\ chainCalls' = 1)]_vars
    /\ (<>ConfigComplete(ddConfig)) => <>(rumInits > 0)

\* the configuration arrived after the attempt at DOMContentLoaded and its
\* retry had each scheduled a retry, and the third attempt initialized Datadog
DatadogWaitsForConfigWitness ==
    /\ lastAttempt.n = 3
    /\ lastAttempt.complete
    /\ chainCalls = 1
    /\ rumInits = 1
    /\ ddPending = 0
    /\ ddStage = [at |-> "started", readyState |-> "interactive"]

====
